---- MODULE Spec2Model ----
(***************************************************************************)
(* Verification model of the product search and bundle assembly pipeline:  *)
(* constraint extraction, pre-filtering and scoring (src/lib/search.ts)    *)
(* and the tiered bundle builder behind POST /api/cart/build              *)
(* (src/app/api/cart/build/route.ts).                                      *)
(*                                                                         *)
(* Queries, categories, colours and titles are TLA+ strings; the string    *)
(* operations of the code (toLowerCase, includes, split, regular           *)
(* expressions, parseInt) are computed character by character.             *)
(* Scores are kept as integers scaled by 100 (the budget proximity bonus   *)
(* is priceDiff / 100) and tier boundaries as integers scaled by 100 (the  *)
(* quantile cut points are minPrice + priceRange * 0.33 and * 0.67).       *)
(***************************************************************************)
EXTENDS Integers, Sequences, FiniteSets, TLC

VARIABLES
    catalog,     \* the product list returned by loadCatalog()
    searchCall,  \* arguments of the pending searchProducts call, or NoCall
    searchOut,   \* the list returned by searchProducts, or NoResult
    cartReq,     \* body of the pending POST /api/cart/build request, or NoCall
    cartResp,    \* the response of POST /api/cart/build, or NoResult; beside the
                 \* status and the JSON body it records pool, the products
                 \* buildCarts kept after its hard filter (its local "products",
                 \* <<>> when buildCarts was not reached), and built and
                 \* reply, the carts of buildCarts and the reply of the
                 \* reasons provider
    searchReq,   \* body of the pending POST /api/search request, or NoCall
    searchResp,  \* the response of POST /api/search, or NoResult
    catalogCache,      \* the module variable catalogCache: NoSnapshot or a product list
    catalogCacheTime,  \* the module variable catalogCacheTime, in milliseconds
    clock,             \* Date.now(), in milliseconds
    catalogFile,       \* the text of data/catalog.json, or NoFile
    loadOut      \* the last return of loadCatalog() with the branch it took and
                 \* the number of calls so far, or NoResult

\* the state of src/lib/catalog.ts and of its file
cacheVars == <<catalogCache, catalogCacheTime, clock, catalogFile, loadOut>>

vars == <<catalog, searchCall, searchOut, cartReq, cartResp, searchReq, searchResp,
          catalogCache, catalogCacheTime, clock, catalogFile, loadOut>>

NoCall == [none |-> TRUE]
NoResult == [none |-> TRUE]
Null == "null"
\* undefined/null in a numeric field (TLC does not compare numbers with strings)
NoNumber == -1

-----------------------------------------------------------------------------
(* Sequences *)

Range(s) == {s[i] : i \in DOMAIN s}

RECURSIVE SumSeq(_)
SumSeq(s) == IF s = <<>> THEN 0 ELSE Head(s) + SumSeq(Tail(s))

Abs(x) == IF x < 0 THEN -x ELSE x

Min2(a, b) == IF a <= b THEN a ELSE b

Max2(a, b) == IF a >= b THEN a ELSE b

\* Array.prototype.indexOf: 0 when absent (the code's -1)
IndexOf(s, x) == IF \E i \in DOMAIN s : s[i] = x
                 THEN CHOOSE i \in DOMAIN s : s[i] = x /\ \A j \in 1..(i-1) : s[j] # x
                 ELSE 0

\* Set-like append used for "new Set" insertion order
AddUnique(s, x) == IF x \in Range(s) THEN s ELSE Append(s, x)

RECURSIVE AddAllUnique(_, _)
AddAllUnique(s, xs) == IF xs = <<>> THEN s ELSE AddAllUnique(AddUnique(s, Head(xs)), Tail(xs))

-----------------------------------------------------------------------------
(* Strings *)

CharAt(s, i) == SubSeq(s, i, i)

UpperToLower ==
    [A |-> "a", B |-> "b", C |-> "c", D |-> "d", E |-> "e", F |-> "f", G |-> "g",
     H |-> "h", I |-> "i", J |-> "j", K |-> "k", L |-> "l", M |-> "m", N |-> "n",
     O |-> "o", P |-> "p", Q |-> "q", R |-> "r", S |-> "s", T |-> "t", U |-> "u",
     V |-> "v", W |-> "w", X |-> "x", Y |-> "y", Z |-> "z"]

LowerToUpper ==
    [a |-> "A", b |-> "B", c |-> "C", d |-> "D", e |-> "E", f |-> "F", g |-> "G",
     h |-> "H", i |-> "I", j |-> "J", k |-> "K", l |-> "L", m |-> "M", n |-> "N",
     o |-> "O", p |-> "P", q |-> "Q", r |-> "R", s |-> "S", t |-> "T", u |-> "U",
     v |-> "V", w |-> "W", x |-> "X", y |-> "Y", z |-> "Z"]

DigitValue ==
    [c \in {"0", "1", "2", "3", "4", "5", "6", "7", "8", "9"} |->
        CASE c = "0" -> 0 [] c = "1" -> 1 [] c = "2" -> 2 [] c = "3" -> 3
          [] c = "4" -> 4 [] c = "5" -> 5 [] c = "6" -> 6 [] c = "7" -> 7
          [] c = "8" -> 8 [] c = "9" -> 9]

IsDigit(c) == c \in DOMAIN DigitValue

\* \w of the regular expressions
IsWordChar(c) == c \in DOMAIN UpperToLower \/ c \in DOMAIN LowerToUpper \/ IsDigit(c) \/ c = "_"

\* \s of the regular expressions (the queries are single-line)
IsSpace(c) == c = " "

LowerChar(c) == IF c \in DOMAIN UpperToLower THEN UpperToLower[c] ELSE c

UpperChar(c) == IF c \in DOMAIN LowerToUpper THEN LowerToUpper[c] ELSE c

\* String.prototype.toLowerCase, character by character (the string is halved
\* to keep the recursion shallow)
RECURSIVE toLowerCase(_)
toLowerCase(s) ==
    IF Len(s) = 0 THEN ""
    ELSE IF Len(s) = 1 THEN LowerChar(s)
    ELSE LET h == Len(s) \div 2
         IN toLowerCase(SubSeq(s, 1, h)) \o toLowerCase(SubSeq(s, h + 1, Len(s)))

\* s.charAt(0).toUpperCase() + s.slice(1)
Capitalize(s) == IF s = "" THEN "" ELSE UpperChar(Head(s)) \o Tail(s)

StartsWithAt(s, i, t) == i + Len(t) - 1 <= Len(s) /\ SubSeq(s, i, i + Len(t) - 1) = t

\* String.prototype.includes
Includes(s, t) == \E i \in 1..(Len(s) - Len(t) + 1) : StartsWithAt(s, i, t)

EndsWith(s, t) == Len(t) <= Len(s) /\ StartsWithAt(s, Len(s) - Len(t) + 1, t)

\* new RegExp(`\\b${w}\\b`).test(s) for a literal w that starts and ends with word characters
WordAt(s, i, w) ==
    /\ StartsWithAt(s, i, w)
    /\ (i = 1 \/ ~IsWordChar(CharAt(s, i - 1)))
    /\ (i + Len(w) > Len(s) \/ ~IsWordChar(CharAt(s, i + Len(w))))

HasWord(s, w) == \E i \in 1..(Len(s) - Len(w) + 1) : WordAt(s, i, w)

\* s.replace(new RegExp(`\\b${w}\\b`, 'gi'), r) on a lower-case s
RECURSIVE ReplaceWordFrom(_, _, _, _)
ReplaceWordFrom(s, i, w, r) ==
    IF i > Len(s) THEN ""
    ELSE IF WordAt(s, i, w) THEN r \o ReplaceWordFrom(s, i + Len(w), w, r)
    ELSE CharAt(s, i) \o ReplaceWordFrom(s, i + 1, w, r)

ReplaceWord(s, w, r) == ReplaceWordFrom(s, 1, w, r)

\* character classes of the regular expressions, by name
InClass(cls, c) ==
    CASE cls = "space" -> IsSpace(c)
      [] cls = "nonspace" -> ~IsSpace(c)
      [] cls = "word" -> IsWordChar(c)
      [] cls = "digit" -> IsDigit(c)

\* first index >= i of s that does not hold a character of the class
RECURSIVE SkipWhile(_, _, _)
SkipWhile(s, i, cls) ==
    IF i <= Len(s) /\ InClass(cls, CharAt(s, i)) THEN SkipWhile(s, i + 1, cls) ELSE i

\* s.split(/\s+/): the maximal runs of non-space characters, with the empty
\* leading/trailing pieces the code's length filter drops anyway left out
RECURSIVE SplitFrom(_, _)
SplitFrom(s, i) ==
    LET b == SkipWhile(s, i, "space")
        e == SkipWhile(s, b, "nonspace")
    IN IF b > Len(s) THEN <<>> ELSE <<SubSeq(s, b, e - 1)>> \o SplitFrom(s, e)

SplitWords(s) == SplitFrom(s, 1)

\* Array.prototype.join
RECURSIVE Join(_, _)
Join(parts, sep) ==
    IF parts = <<>> THEN ""
    ELSE IF Len(parts) = 1 THEN parts[1]
    ELSE parts[1] \o sep \o Join(Tail(parts), sep)

\* parseInt(digits, 10) for a non-empty run of decimal digits
RECURSIVE ParseDigits(_, _)
ParseDigits(s, acc) ==
    IF s = "" THEN acc ELSE ParseDigits(Tail(s), acc * 10 + DigitValue[Head(s)])

parseInt(s) == ParseDigits(s, 0)

-----------------------------------------------------------------------------
(* A small backtracking matcher for the regular expressions of             *)
(* extractConstraints.  A pattern is a sequence of elements:               *)
(*   [t |-> "alt", lits |-> <<...>>]   (?:a|b|...), alternatives in order  *)
(*   [t |-> "opt", lits |-> <<...>>]   (?:a|b|...)?, greedy                *)
(*   [t |-> "ws"]   \s*      [t |-> "ws1"]   \s+                           *)
(*   [t |-> "num"]  (\d+)    [t |-> "word"]  (\w+)                         *)
(* MatchFrom returns the captures of all successful matches at a position, *)
(* in the order in which a backtracking engine finds them; the first one   *)
(* is the capture of String.prototype.match.  The /i flag is modelled by   *)
(* matching lower-case literals against the lower-cased subject.           *)

RECURSIVE FlatMap(_, _, _, _, _)
RECURSIVE MatchFrom(_, _, _, _, _)

\* the captures reached by continuing at each end position of ends, in order
FlatMap(s, ends, pat, k, cap) ==
    IF ends = <<>> THEN <<>>
    ELSE MatchFrom(s, Head(ends), pat, k, cap) \o FlatMap(s, Tail(ends), pat, k, cap)

RECURSIVE RunCaptures(_, _, _, _, _)
\* greedy run of a class from i: the longest run first, then shorter ones
RunCaptures(s, i, j, pat, k) ==
    IF j <= i THEN <<>>
    ELSE MatchFrom(s, j, pat, k, SubSeq(s, i, j - 1)) \o RunCaptures(s, i, j - 1, pat, k)

\* the positions j, j-1, ..., lo
RECURSIVE DownTo(_, _)
DownTo(j, lo) == IF j < lo THEN <<>> ELSE <<j>> \o DownTo(j - 1, lo)

LitEnds(s, i, lits) ==
    LET hit == SelectSeq(lits, LAMBDA l : StartsWithAt(s, i, l))
    IN [n \in 1..Len(hit) |-> i + Len(hit[n])]

MatchFrom(s, i, pat, k, cap) ==
    IF k > Len(pat) THEN <<cap>>
    ELSE LET e == pat[k] IN
         CASE e.t = "alt" -> FlatMap(s, LitEnds(s, i, e.lits), pat, k + 1, cap)
           [] e.t = "opt" -> FlatMap(s, LitEnds(s, i, e.lits) \o <<i>>, pat, k + 1, cap)
           [] e.t = "ws" -> FlatMap(s, DownTo(SkipWhile(s, i, "space"), i), pat, k + 1, cap)
           [] e.t = "ws1" -> FlatMap(s, DownTo(SkipWhile(s, i, "space"), i + 1), pat, k + 1, cap)
           [] e.t = "num" -> RunCaptures(s, i, SkipWhile(s, i, "digit"), pat, k + 1)
           [] e.t = "word" -> RunCaptures(s, i, SkipWhile(s, i, "word"), pat, k + 1)

\* subject.match(pattern): <<capture>> of the leftmost match, <<>> when there is none
RECURSIVE MatchScan(_, _, _)
MatchScan(s, i, pat) ==
    IF i > Len(s) THEN <<>>
    ELSE LET m == MatchFrom(s, i, pat, 1, "")
         IN IF m # <<>> THEN <<Head(m)>> ELSE MatchScan(s, i + 1, pat)

RegexMatch(s, pat) == MatchScan(toLowerCase(s), 1, pat)

-----------------------------------------------------------------------------
(* src/lib/search.ts *)

SYNONYMS ==
    [shoe |-> <<"sneaker", "loafer", "derby", "heel", "flat", "footwear">>,
     shoes |-> <<"sneakers", "trainers", "athletic shoes", "runners", "footwear">>,
     sneaker |-> <<"sneakers", "trainers", "athletic shoes", "runners">>,
     snikers |-> <<"sneakers", "sneaker">>,
     sneakers |-> <<"sneaker", "trainers", "athletic shoes", "runners">>,
     shirt |-> <<"shirts", "blouse", "top", "tee", "t-shirt">>,
     shirts |-> <<"shirt", "blouse", "top", "tee", "t-shirt">>,
     pants |-> <<"trousers", "chinos", "jeans", "slacks">>,
     trousers |-> <<"pants", "chinos", "jeans", "slacks">>,
     jacket |-> <<"blazer", "coat", "outerwear">>,
     blazer |-> <<"jacket", "coat", "blazers">>,
     bag |-> <<"handbag", "purse", "clutch", "tote">>,
     handbag |-> <<"bag", "purse", "clutch", "tote">>,
     purse |-> <<"handbag", "bag", "clutch", "tote">>]

\* Object.entries(TYPO_CORRECTIONS), in insertion order
TYPO_CORRECTIONS ==
    << <<"snikers", "sneakers">>, <<"sniker", "sneaker">>,
       <<"trainers", "sneakers">>, <<"trainer", "sneaker">> >>

\* SYNONYMS[k] || ... : the list, or <<>> for undefined
SynonymsOf(k) == IF k \in DOMAIN SYNONYMS THEN SYNONYMS[k] ELSE <<>>

\* TYPO_CORRECTIONS[token] || token
TypoCorrected(t) ==
    LET hit == SelectSeq(TYPO_CORRECTIONS, LAMBDA e : e[1] = t)
    IN IF hit # <<>> THEN hit[1][2] ELSE t

\* the singular/plural variations added for one synonym
RECURSIVE AddSynonyms(_, _)
AddSynonyms(expanded, syns) ==
    IF syns = <<>> THEN expanded
    ELSE LET syn == Head(syns)
             e1 == AddUnique(expanded, toLowerCase(syn))
             e2 == IF EndsWith(syn, "s") /\ Len(syn) > 1
                   THEN AddUnique(e1, toLowerCase(SubSeq(syn, 1, Len(syn) - 1)))
                   ELSE AddUnique(e1, toLowerCase(syn \o "s"))
         IN AddSynonyms(e2, Tail(syns))

RECURSIVE AddLower(_, _)
AddLower(expanded, syns) ==
    IF syns = <<>> THEN expanded
    ELSE AddLower(AddUnique(expanded, toLowerCase(Head(syns))), Tail(syns))

ExpandToken(expanded, token) ==
    LET lower == toLowerCase(token)
        e1 == AddUnique(expanded, token)
        corrected == TypoCorrected(lower)
        e2 == IF corrected # lower THEN AddUnique(e1, corrected) ELSE e1
        synonyms == IF SynonymsOf(lower) # <<>> THEN SynonymsOf(lower) ELSE SynonymsOf(corrected)
        e3 == AddSynonyms(e2, synonyms)
    IN IF EndsWith(token, "s") /\ Len(token) > 1
       THEN LET singular == toLowerCase(SubSeq(token, 1, Len(token) - 1))
            IN AddLower(AddUnique(e3, singular), SynonymsOf(singular))
       ELSE LET plural == toLowerCase(token \o "s")
            IN AddLower(AddUnique(e3, plural), SynonymsOf(plural))

RECURSIVE ExpandFrom(_, _)
ExpandFrom(expanded, tokens) ==
    IF tokens = <<>> THEN expanded
    ELSE ExpandFrom(ExpandToken(expanded, Head(tokens)), Tail(tokens))

expandSynonyms(tokens) == ExpandFrom(<<>>, tokens)

StopWords == {"the", "and", "or", "for", "with", "under", "below", "max"}

\* the base tokens: lower-cased, split on whitespace, length > 2, no stop word
BaseTokens(query) ==
    SelectSeq(SplitWords(toLowerCase(query)), LAMBDA t : Len(t) > 2 /\ t \notin StopWords)

tokenizeQuery(query) == expandSynonyms(BaseTokens(query))

\* Levenshtein distance, one row of the dp table at a time
RECURSIVE LevRow(_, _, _, _, _)
\* row i of the table, built left to right: prev is row i-1, acc holds dp[i][0..j-1]
LevRow(c, str2, prev, acc, j) ==
    IF j > Len(str2) THEN acc
    ELSE LET cell == IF c = CharAt(str2, j)
                     THEN prev[j]
                     ELSE Min2(Min2(prev[j + 1] + 1, acc[j] + 1), prev[j] + 1)
         IN IF cell < 0 THEN acc ELSE LevRow(c, str2, prev, Append(acc, cell), j + 1)

RECURSIVE LevRows(_, _, _, _)
LevRows(str1, str2, prev, i) ==
    IF i > Len(str1) THEN prev
    ELSE LET row == LevRow(CharAt(str1, i), str2, prev, <<i>>, 1)
         IN IF Len(row) = 0 THEN row ELSE LevRows(str1, str2, row, i + 1)

levenshteinDistance(str1, str2) ==
    LevRows(str1, str2, [j \in 1..(Len(str2) + 1) |-> j - 1], 1)[Len(str2) + 1]

\* threshold has its default value 2 at every call site
fuzzyMatchCategory(category, query) ==
    LET categoryLower == toLowerCase(category)
        queryLower == toLowerCase(query)
        distance == levenshteinDistance(categoryLower, queryLower)
        maxLength == Max2(Len(categoryLower), Len(queryLower))
    IN \/ Includes(categoryLower, queryLower)
       \/ Includes(queryLower, categoryLower)
       \/ (maxLength > 0 /\ distance <= 2 /\ distance * 10 < 3 * maxLength)

Audiences == {"men", "women", "unisex"}

AUDIENCE_CATEGORIES ==
    [men |-> <<"Shirts", "Polos", "Chinos", "Jeans", "Tees", "Blazers", "Sneakers", "Loafers", "Derbies">>,
     women |-> <<"Dresses", "Blouses", "Trousers", "Skirts", "Tees", "Blazers", "Sneakers", "Flats", "Heels", "Clutches">>,
     unisex |-> <<"Tees", "Overshirts", "Hoodies", "Jackets", "Trousers", "Sneakers", "Backpacks", "Sunglasses", "Beanies">>]

Currency == <<"$", "usd", "dollars", "dollar">>

budgetPatterns ==
    << <<[t |-> "alt", lits |-> <<"under", "below", "less than", "max", "maximum", "upto", "up to">>],
         [t |-> "ws"], [t |-> "opt", lits |-> Currency], [t |-> "ws"], [t |-> "num"]>>,
       <<[t |-> "alt", lits |-> Currency], [t |-> "ws"], [t |-> "num"], [t |-> "ws"],
         [t |-> "alt", lits |-> <<"and", "or">>], [t |-> "ws"],
         [t |-> "alt", lits |-> <<"below", "under", "less">>]>>,
       <<[t |-> "alt", lits |-> Currency], [t |-> "ws"], [t |-> "num"], [t |-> "ws"],
         [t |-> "alt", lits |-> <<"max", "maximum">>]>>,
       <<[t |-> "alt", lits |-> Currency], [t |-> "ws"], [t |-> "num"]>> >>

ExtractCategories ==
    <<"shirts", "trousers", "jeans", "t-shirts", "t shirts", "blazers",
      "dresses", "sneakers", "loafers", "derbies", "heels", "flats",
      "handbags", "watches", "polos", "chinos", "blouses", "skirts",
      "clutches", "overshirts", "hoodies", "jackets", "backpacks",
      "sunglasses", "beanies", "tees">>

excludeColorPatterns ==
    << <<[t |-> "alt", lits |-> <<"no">>], [t |-> "ws1"], [t |-> "word"]>>,
       <<[t |-> "alt", lits |-> <<"exclude">>], [t |-> "ws1"], [t |-> "word"]>>,
       <<[t |-> "alt", lits |-> <<"without">>], [t |-> "ws1"], [t |-> "word"]>>,
       <<[t |-> "alt", lits |-> <<"not">>], [t |-> "ws1"], [t |-> "word"]>> >>

ExtractColors ==
    <<"black", "white", "navy", "gray", "grey", "beige", "brown", "blue", "red",
      "green", "pink", "purple", "yellow", "orange", "maroon", "olive">>

ExtractOccasions ==
    <<"casual", "formal", "party", "work", "wedding", "sports", "travel", "evening", "beach", "office">>

ExtractStyles ==
    <<"minimalist", "vintage", "contemporary", "bohemian", "classic", "streetwear", "elegant", "sporty">>

\* the typo table applied to the lower-cased query, entry by entry
RECURSIVE ApplyTypos(_, _)
ApplyTypos(q, entries) ==
    IF entries = <<>> THEN q
    ELSE ApplyTypos(ReplaceWord(q, Head(entries)[1], Head(entries)[2]), Tail(entries))

\* the budget patterns are matched against the uncorrected query; the first
\* pattern that matches anywhere decides
\* matches[n] is query.match(budgetPatterns[n])
FirstBudget(matches) ==
    LET hits == SelectSeq(matches, LAMBDA m : m # <<>>)
    IN IF hits = <<>> THEN NoNumber ELSE parseInt(hits[1][1])

ExtractBudget(query) ==
    FirstBudget([n \in DOMAIN budgetPatterns |-> RegexMatch(query, budgetPatterns[n])])

ExtractCategory(lowerQuery) ==
    LET hits == SelectSeq(ExtractCategories, LAMBDA c : HasWord(lowerQuery, c))
    IN IF hits = <<>> THEN Null
       ELSE IF hits[1] = "t-shirts" \/ hits[1] = "t shirts" THEN "T-Shirts"
       ELSE Capitalize(hits[1])

ExtractIncludeKeywords(lowerQuery, audience) ==
    LET footwear == <<"Sneakers", "Loafers", "Derbies", "Heels", "Flats">>
    IN IF ExtractCategory(lowerQuery) = Null /\ Includes(lowerQuery, "shoe")
       THEN CASE audience = "men" -> SelectSeq(footwear, LAMBDA c : c \in {"Sneakers", "Loafers", "Derbies"})
              [] audience = "women" -> SelectSeq(footwear, LAMBDA c : c \in {"Sneakers", "Flats", "Heels"})
              [] audience = "unisex" -> <<"Sneakers">>
              [] OTHER -> footwear
       ELSE <<>>

ColorName(c) == IF toLowerCase(c) = "grey" THEN "Gray" ELSE Capitalize(toLowerCase(c))

\* the first exclusion pattern whose leftmost match captures a colour word decides
\* matches[n] is lowerQuery.match(excludeColorPatterns[n])
FirstExcluded(matches) ==
    LET hits == SelectSeq(matches,
                          LAMBDA m : m # <<>> /\ toLowerCase(m[1]) \in Range(ExtractColors))
    IN IF hits = <<>> THEN Null ELSE ColorName(hits[1][1])

ExtractColorExclude(lowerQuery) ==
    FirstExcluded([n \in DOMAIN excludeColorPatterns |->
                      RegexMatch(lowerQuery, excludeColorPatterns[n])])

FirstIncluded(lowerQuery, words) ==
    LET hits == SelectSeq(words, LAMBDA w : Includes(lowerQuery, w))
    IN IF hits = <<>> THEN Null ELSE hits[1]

ExtractColor(lowerQuery) ==
    LET c == FirstIncluded(lowerQuery, ExtractColors)
    IN IF ExtractColorExclude(lowerQuery) # Null \/ c = Null THEN Null
       ELSE IF c = "grey" THEN "Gray" ELSE Capitalize(c)

ExtractGender(lowerQuery) ==
    IF Includes(lowerQuery, "men") \/ Includes(lowerQuery, "male") \/ Includes(lowerQuery, "gents")
    THEN "Men"
    ELSE IF Includes(lowerQuery, "women") \/ Includes(lowerQuery, "female") \/ Includes(lowerQuery, "ladies")
    THEN "Women"
    ELSE Null

CapitalizeOrNull(w) == IF w = Null THEN Null ELSE Capitalize(w)

\* unset fields are Null (NoNumber for budgetMax); an unset list is <<>>
ConstraintsOf(query, lowerQuery, audience) ==
       [budgetMax |-> ExtractBudget(query),
        category |-> ExtractCategory(lowerQuery),
        includeKeywords |-> ExtractIncludeKeywords(lowerQuery, audience),
        colorExclude |-> ExtractColorExclude(lowerQuery),
        color |-> ExtractColor(lowerQuery),
        occasion |-> CapitalizeOrNull(FirstIncluded(lowerQuery, ExtractOccasions)),
        gender |-> ExtractGender(lowerQuery),
        style |-> CapitalizeOrNull(FirstIncluded(lowerQuery, ExtractStyles)),
        excludeKeywords |-> <<>>,
        excludeCategories |-> <<>>,
        sortBy |-> Null]

extractConstraints(query, audience) ==
    ConstraintsOf(query, ApplyTypos(toLowerCase(query), TYPO_CORRECTIONS), audience)

\* truthiness of an optional string: undefined/null and "" are falsy
Truthy(v) == v # Null /\ v # ""

\* truthiness of an optional number: undefined/null and 0 are falsy
TruthyNum(v) == v # NoNumber /\ v # 0

scenarioMatches ==
    [summer_wedding |-> <<"summer", "wedding", "outdoor", "festive">>,
     nyc_dinner |-> <<"nyc", "new york", "dinner", "evening", "work">>,
     biz_travel |-> <<"business", "travel", "trip", "airport">>,
     chi_winter |-> <<"chicago", "winter", "cold", "snow">>,
     campus |-> <<"campus", "college", "university", "school">>]

\* the contribution of one token to the score of a product (scaled by 100)
TokenScore(product, token, originalTokens) ==
    LET isOriginalToken == \E n \in DOMAIN originalTokens :
                              \/ originalTokens[n] = token
                              \/ Includes(originalTokens[n], token)
                              \/ Includes(token, originalTokens[n])
        matchBonus == IF isOriginalToken THEN 200 ELSE 0
        In(field) == Includes(toLowerCase(field), token)
    IN (IF In(product.title) THEN 1000 + matchBonus ELSE 0)
     + (IF In(product.brand) THEN 800 + matchBonus ELSE 0)
     + (IF In(product.category) THEN 700 + matchBonus
        ELSE IF fuzzyMatchCategory(product.category, token) THEN 500 ELSE 0)
     + (IF In(product.color) THEN 600 + matchBonus
        ELSE IF fuzzyMatchCategory(product.color, token) THEN 400 ELSE 0)
     + (IF In(product.style) THEN 500 + matchBonus ELSE 0)
     + (IF \E n \in DOMAIN product.occasionTags : In(product.occasionTags[n])
        THEN 400 + matchBonus ELSE 0)
     + (IF In(product.description) THEN 200 ELSE 0)
     + (IF token = "summer" /\ product.scenarioId = "summer_wedding" THEN 800 ELSE 0)
     + (IF token = "wedding" /\ product.scenarioId = "summer_wedding" THEN 800 ELSE 0)
     + (IF token = "outdoor" /\ product.scenarioId = "summer_wedding" THEN 600 ELSE 0)

RECURSIVE TokensScore(_, _, _)
TokensScore(product, tokens, originalTokens) ==
    IF tokens = <<>> THEN 0
    ELSE TokenScore(product, Head(tokens), originalTokens)
         + TokensScore(product, Tail(tokens), originalTokens)

\* the score of a product, scaled by 100
calculateScore(product, tokens, constraints, originalQuery) ==
    LET queryLower == toLowerCase(Join(tokens, " "))
        scenarioBoost ==
            IF /\ product.scenarioId \in DOMAIN scenarioMatches
               /\ \E n \in DOMAIN scenarioMatches[product.scenarioId] :
                      Includes(queryLower, scenarioMatches[product.scenarioId][n])
            THEN 1500 ELSE 0
        priceDiff == constraints.budgetMax - product.price
    IN scenarioBoost
     + TokensScore(product, tokens, BaseTokens(originalQuery))
     + (IF Truthy(constraints.category) /\ product.category = constraints.category THEN 500 ELSE 0)
     + (IF Truthy(constraints.color) /\ product.color = constraints.color THEN 400 ELSE 0)
     + (IF /\ Truthy(constraints.occasion)
           /\ \E n \in DOMAIN product.occasionTags :
                  toLowerCase(product.occasionTags[n]) = toLowerCase(constraints.occasion)
        THEN 300 ELSE 0)
     + (IF Truthy(constraints.style) /\ product.style = constraints.style THEN 300 ELSE 0)
     + (IF TruthyNum(constraints.budgetMax) /\ priceDiff > 0 THEN Min2(priceDiff, 500) ELSE 0)

\* the categories of an audience; no restriction for any other value
AllowedCategories(audience) ==
    IF audience \in Audiences THEN Range(AUDIENCE_CATEGORIES[audience]) ELSE {}

\* a filter step that lets every product pass
AnyAudience(product, audience) == TRUE

\* Audience-based category filtering
AudienceOk(product, audience) ==
    ~(audience \in Audiences /\ product.category \notin AllowedCategories(audience))

\* Budget filter
BudgetOk(product, constraints) ==
    ~(TruthyNum(constraints.budgetMax) /\ product.price > constraints.budgetMax)

\* Category filter
CategoryOk(product, constraints) ==
    ~(Truthy(constraints.category) /\ product.category # constraints.category)

\* Color include filter
ColorOk(product, constraints) ==
    ~(Truthy(constraints.color) /\ product.color # constraints.color)

\* a colour exclusion that lets every product pass
AnyColor(product, constraints) == TRUE

\* Color exclude filter
ColorExcludeOk(product, constraints) ==
    ~(/\ Truthy(constraints.colorExclude)
      /\ toLowerCase(product.color) = toLowerCase(constraints.colorExclude))

\* Include keywords filter
IncludeKeywordsOk(product, constraints, audience) ==
    ~(/\ Len(constraints.includeKeywords) > 0
      /\ \/ ~\E n \in DOMAIN constraints.includeKeywords :
               toLowerCase(product.category) = toLowerCase(constraints.includeKeywords[n])
         \/ (audience \in Audiences /\ product.category \notin AllowedCategories(audience)))

\* Exclude keywords filter
ExcludeKeywordsOk(product, constraints) ==
    LET productText == toLowerCase(Join(<<product.title, product.description,
                                          product.category, product.color>>, " "))
    IN ~(/\ Len(constraints.excludeKeywords) > 0
         /\ \E n \in DOMAIN constraints.excludeKeywords :
                Includes(productText, toLowerCase(constraints.excludeKeywords[n])))

\* Category exclusion filter
ExcludeCategoriesOk(product, constraints) ==
    ~(/\ Len(constraints.excludeCategories) > 0
      /\ product.category \in Range(constraints.excludeCategories))

\* Occasion filter
OccasionOk(product, constraints) ==
    ~(/\ Truthy(constraints.occasion)
      /\ ~\E n \in DOMAIN product.occasionTags :
             toLowerCase(product.occasionTags[n]) = toLowerCase(constraints.occasion))

\* Style filter
StyleOk(product, constraints) ==
    ~(Truthy(constraints.style) /\ product.style # constraints.style)

preFilter(product, constraints, audience) ==
    /\ AudienceOk(product, audience)
    /\ BudgetOk(product, constraints)
    /\ CategoryOk(product, constraints)
    /\ ColorOk(product, constraints)
    /\ ColorExcludeOk(product, constraints)
    /\ IncludeKeywordsOk(product, constraints, audience)
    /\ ExcludeKeywordsOk(product, constraints)
    /\ ExcludeCategoriesOk(product, constraints)
    /\ OccasionOk(product, constraints)
    /\ StyleOk(product, constraints)

\* Array.prototype.sort with the comparator (a, b) => b.score - a.score: a
\* stable sort by score, descending
RECURSIVE InsertByScore(_, _)
InsertByScore(sorted, r) ==
    IF sorted = <<>> THEN <<r>>
    ELSE IF Head(sorted).score >= r.score
         THEN <<Head(sorted)>> \o InsertByScore(Tail(sorted), r)
         ELSE <<r>> \o sorted

RECURSIVE SortByScoreFrom(_, _)
SortByScoreFrom(sorted, rest) ==
    IF rest = <<>> THEN sorted
    ELSE SortByScoreFrom(InsertByScore(sorted, Head(rest)), Tail(rest))

SortByScore(results) == SortByScoreFrom(<<>>, results)

\* slice(0, limit)
Take(s, n) == SubSeq(s, 1, Min2(n, Len(s)))

\* query.trim() is empty
IsBlank(query) == SkipWhile(query, 1, "space") > Len(query)

\* a score filter that drops the results that matched no token
PositiveScore(result) == result.score > 0

\* .filter((result) => result.score >= 0)
ScoreOk(result) == result.score >= 0

\* the comparator of the price sorts: the score decides when the scores differ
\* by more than 5, the price otherwise (scores are scaled by 100)
PriceCompare(a, b, sortBy) ==
    IF a.score # b.score /\ Abs(a.score - b.score) > 500
    THEN b.score - a.score
    ELSE IF sortBy = "price_asc" THEN a.product.price - b.product.price
         ELSE b.product.price - a.product.price

\* Array.prototype.sort as the runtime of the application (Node, V8) runs it on
\* an array of fewer than 64 elements: the leading run is found and, when it
\* descends, reversed; every later element is then inserted by binary search.
\* The leading run of an array of two or more elements:
CountAndMakeRun(work, sortBy) ==
    LET isDescending == PriceCompare(work[2], work[1], sortBy) < 0
        InRun(idx) == LET order == PriceCompare(work[idx], work[idx - 1], sortBy)
                      IN IF isDescending THEN order < 0 ELSE order >= 0
        runLength == CHOOSE r \in 2..Len(work) :
                         /\ \A idx \in 3..r : InRun(idx)
                         /\ (r = Len(work) \/ ~InRun(r + 1))
    IN [work |-> IF isDescending
                 THEN [n \in 1..runLength |-> work[runLength + 1 - n]]
                      \o SubSeq(work, runLength + 1, Len(work))
                 ELSE work,
        runLength |-> runLength]

\* the place of pivot among work[left+1 .. right]
RECURSIVE BinarySearch(_, _, _, _, _)
BinarySearch(work, pivot, left, right, sortBy) ==
    IF left >= right THEN left
    ELSE LET mid == left + ((right - left) \div 2)
         IN IF PriceCompare(pivot, work[mid + 1], sortBy) < 0
            THEN BinarySearch(work, pivot, left, mid, sortBy)
            ELSE BinarySearch(work, pivot, mid + 1, right, sortBy)

\* work[1 .. start] is sorted; the elements after it are inserted one by one
RECURSIVE BinaryInsertionSort(_, _, _)
BinaryInsertionSort(work, start, sortBy) ==
    IF start >= Len(work) THEN work
    ELSE LET pivot == work[start + 1]
             left == BinarySearch(work, pivot, 0, start, sortBy)
         IN BinaryInsertionSort(SubSeq(work, 1, left) \o <<pivot>>
                                    \o SubSeq(work, left + 1, start)
                                    \o SubSeq(work, start + 2, Len(work)),
                                start + 1, sortBy)

\* scored.sort(...) of the price sorts; "relevance" keeps the order by score
PriceSort(scored, sortBy) ==
    IF sortBy \notin {"price_asc", "price_desc"} \/ Len(scored) < 2 THEN scored
    ELSE LET run == CountAndMakeRun(scored, sortBy)
         IN BinaryInsertionSort(run.work, run.runLength, sortBy)

\* Step 2: the pre-filtered products with their scores
ScoreAll(preFiltered, tokens, constraints, query) ==
    [n \in DOMAIN preFiltered |->
        [product |-> preFiltered[n],
         score |-> calculateScore(preFiltered[n], tokens, constraints, query)]]

\* searchProducts once the tokens and the constraints are known
RankProducts(products, query, limit, audience, sortBy, tokens, constraints) ==
    Take(PriceSort(SortByScore(SelectSeq(
             ScoreAll(SelectSeq(products, LAMBDA p : preFilter(p, constraints, audience)),
                      tokens, constraints, query),
             ScoreOk)), sortBy), limit)

searchProducts(products, query, limit, audience, sortBy) ==
    IF IsBlank(query) THEN <<>>
    ELSE RankProducts(products, query, limit, audience, sortBy, tokenizeQuery(query),
                      [extractConstraints(query, audience) EXCEPT !.sortBy = sortBy])

-----------------------------------------------------------------------------
(* The catalog.  data/catalog.json holds products of the shape produced by  *)
(* generateProductForScenario; the model draws the catalog from a fixed    *)
(* universe of such products.                                              *)

ScenarioTags ==
    [nyc_dinner |-> <<"Work", "Evening", "Office", "Casual">>,
     campus |-> <<"Casual", "Sports", "Travel">>]

ScenarioFormality ==
    [nyc_dinner |-> "smart_casual", campus |-> "relaxed"]

MakeProduct(id, scenarioId, audience, category, color, price, brand, style, deliveryDays) ==
    [id |-> id,
     title |-> brand \o " " \o category \o " - " \o color,
     brand |-> brand,
     price |-> price,
     category |-> category,
     color |-> color,
     occasionTags |-> ScenarioTags[scenarioId],
     style |-> style,
     description |-> "Comfortable regular fit " \o toLowerCase(category) \o " in " \o toLowerCase(color) \o ".",
     scenarioId |-> scenarioId,
     audience |-> audience,
     formality |-> ScenarioFormality[scenarioId],
     deliveryDays |-> deliveryDays]

Universe ==
    << MakeProduct("prod-nyc-wom-001", "nyc_dinner", "women", "Dresses", "Navy", 159, "PremiumStyle", "Elegant", 1),
       MakeProduct("prod-nyc-wom-002", "nyc_dinner", "women", "Heels", "Black", 125, "FashionHub", "Classic", 2),
       MakeProduct("prod-nyc-wom-003", "nyc_dinner", "women", "Clutches", "Black", 92, "DesignerWear", "Elegant", 1),
       MakeProduct("prod-nyc-men-001", "nyc_dinner", "men", "Shirts", "White", 89, "StyleCraft", "Classic", 1),
       MakeProduct("prod-nyc-men-002", "nyc_dinner", "men", "Chinos", "Gray", 95, "UrbanEdge", "Minimalist", 2),
       MakeProduct("prod-nyc-men-003", "nyc_dinner", "men", "Loafers", "Brown", 99, "ClassicWear", "Classic", 1),
       MakeProduct("prod-nyc-men-004", "nyc_dinner", "men", "Jeans", "Black", 185, "UrbanEdge", "Contemporary", 2),
       MakeProduct("prod-nyc-men-005", "nyc_dinner", "men", "Blazers", "Navy", 289, "ModernFit", "Elegant", 2),
       MakeProduct("prod-nyc-men-006", "nyc_dinner", "men", "Tees", "Black", 180, "TrendSet", "Streetwear", 1),
       MakeProduct("prod-nyc-men-007", "nyc_dinner", "men", "Shirts", "Pink", 200, "EliteFashion", "Classic", 2),
       MakeProduct("prod-cmp-men-001", "campus", "men", "Sneakers", "White", 120, "LuxuryBrand", "Sporty", 4),
       MakeProduct("prod-cmp-men-002", "campus", "men", "Sneakers", "Black", 110, "TrendSet", "Sporty", 3) >>

-----------------------------------------------------------------------------
(* src/app/api/cart/build/route.ts *)

AUDIENCE_CATEGORY_WHITELIST ==
    [men |-> <<"Shirts", "Polos", "Chinos", "Jeans", "Tees", "Blazers", "Sneakers", "Loafers", "Derbies">>,
     women |-> <<"Dresses", "Blouses", "Trousers", "Skirts", "Tees", "Blazers", "Sneakers", "Flats", "Heels", "Clutches">>,
     unisex |-> <<"Tees", "Overshirts", "Hoodies", "Jackets", "Trousers", "Sneakers", "Backpacks", "Sunglasses", "Beanies">>]

\* one entry of a template's roles object, in insertion order
R(role, cats) == [role |-> role, cats |-> cats]

ROLE_TEMPLATES ==
    [nyc_dinner |->
        [men |-> << <<R("top", <<"Shirts", "Polos">>),
                      R("bottom", <<"Chinos", "Jeans", "Trousers", "Pants">>),
                      R("footwear", <<"Loafers", "Derbies", "Sneakers">>),
                      R("addOn", <<"Blazers">>)>>,
                    <<R("top", <<"Shirts", "Polos">>),
                      R("bottom", <<"Chinos", "Jeans", "Trousers", "Pants">>),
                      R("footwear", <<"Loafers", "Derbies", "Sneakers">>)>> >>,
         women |-> << <<R("primary", <<"Dresses", "Dress", "Jumpsuit", "Jumpsuits">>),
                        R("footwear", <<"Heels", "Flats", "Loafers", "Sneakers">>),
                        R("addOn", <<"Blazers", "Jackets", "Clutches", "Handbags">>)>>,
                      <<R("top", <<"Blouses", "Tops", "Shirts">>),
                        R("bottom", <<"Trousers", "Pants", "Skirts", "Jeans">>),
                        R("footwear", <<"Heels", "Flats", "Loafers", "Sneakers">>)>> >>,
         unisex |-> << <<R("top", <<"Tees", "Overshirts">>),
                         R("bottom", <<"Trousers", "Pants">>),
                         R("footwear", <<"Sneakers">>),
                         R("addOn", <<"Jackets", "Backpacks">>)>>,
                       <<R("top", <<"Tees", "Overshirts">>),
                         R("bottom", <<"Trousers", "Pants">>),
                         R("footwear", <<"Sneakers">>)>> >>],
     summer_wedding |->
        [men |-> << <<R("top", <<"Shirts", "Polos">>),
                      R("bottom", <<"Chinos", "Trousers", "Pants">>),
                      R("footwear", <<"Loafers", "Derbies">>),
                      R("addOn", <<"Blazers">>)>> >>,
         women |-> << <<R("primary", <<"Dresses", "Dress">>),
                        R("footwear", <<"Heels", "Flats">>),
                        R("addOn", <<"Clutches", "Blazers">>)>>,
                      <<R("top", <<"Blouses", "Tops">>),
                        R("bottom", <<"Trousers", "Pants", "Skirts">>),
                        R("footwear", <<"Heels", "Flats">>)>> >>,
         unisex |-> << <<R("top", <<"Tees", "Overshirts">>),
                         R("bottom", <<"Trousers", "Pants">>),
                         R("footwear", <<"Sneakers">>),
                         R("addOn", <<"Jackets", "Sunglasses">>)>> >>],
     biz_travel |->
        [men |-> << <<R("top", <<"Shirts", "Polos", "Tees">>),
                      R("bottom", <<"Chinos", "Trousers", "Pants">>),
                      R("footwear", <<"Sneakers", "Loafers">>),
                      R("addOn", <<"Blazers", "Jackets">>)>> >>,
         women |-> << <<R("top", <<"Blouses", "Tops", "Tees">>),
                        R("bottom", <<"Trousers", "Skirts">>),
                        R("footwear", <<"Sneakers", "Flats">>)>>,
                      <<R("top", <<"Blouses", "Tops", "Tees">>),
                        R("bottom", <<"Trousers", "Skirts">>),
                        R("footwear", <<"Sneakers", "Flats">>),
                        R("addOn", <<"Blazers", "Clutches">>)>> >>,
         unisex |-> << <<R("top", <<"Tees", "Overshirts">>),
                         R("bottom", <<"Trousers", "Pants">>),
                         R("footwear", <<"Sneakers">>),
                         R("addOn", <<"Jackets", "Backpacks">>)>> >>],
     chi_winter |->
        [men |-> << <<R("top", <<"Shirts", "Polos", "Tees">>),
                      R("bottom", <<"Chinos", "Jeans", "Trousers">>),
                      R("footwear", <<"Sneakers", "Loafers", "Derbies">>),
                      R("addOn", <<"Blazers", "Jackets">>)>> >>,
         women |-> << <<R("primary", <<"Dresses", "Dress">>),
                        R("footwear", <<"Sneakers", "Flats", "Heels">>),
                        R("addOn", <<"Blazers", "Clutches">>)>>,
                      <<R("top", <<"Blouses", "Tops", "Tees">>),
                        R("bottom", <<"Trousers", "Skirts", "Jeans">>),
                        R("footwear", <<"Sneakers", "Flats", "Heels">>)>>,
                      <<R("top", <<"Blouses", "Tops", "Tees">>),
                        R("bottom", <<"Trousers", "Skirts", "Jeans">>),
                        R("footwear", <<"Sneakers", "Flats", "Heels">>),
                        R("addOn", <<"Blazers", "Clutches">>)>> >>,
         unisex |-> << <<R("top", <<"Tees", "Overshirts", "Hoodies">>),
                         R("bottom", <<"Trousers", "Pants">>),
                         R("footwear", <<"Sneakers">>),
                         R("addOn", <<"Jackets", "Beanies">>)>> >>],
     campus |->
        [men |-> << <<R("top", <<"Tees", "Shirts", "Polos">>),
                      R("bottom", <<"Jeans", "Chinos">>),
                      R("footwear", <<"Sneakers">>),
                      R("addOn", <<"Backpacks">>)>> >>,
         women |-> << <<R("top", <<"Tees", "Blouses", "Tops">>),
                        R("bottom", <<"Jeans", "Trousers", "Skirts">>),
                        R("footwear", <<"Sneakers", "Flats">>)>>,
                      <<R("top", <<"Tees", "Blouses", "Tops">>),
                        R("bottom", <<"Jeans", "Trousers", "Skirts">>),
                        R("footwear", <<"Sneakers", "Flats">>),
                        R("addOn", <<"Backpacks">>)>> >>,
         unisex |-> << <<R("top", <<"Tees", "Overshirts", "Hoodies">>),
                         R("bottom", <<"Trousers", "Pants", "Jeans">>),
                         R("footwear", <<"Sneakers">>),
                         R("addOn", <<"Backpacks", "Beanies">>)>> >>]]

\* Object.keys(template.roles)
TemplateRoles(template) == [n \in DOMAIN template |-> template[n].role]

\* the roleCandidates of classifyProductRole
classifyProductRole(product) ==
    LET categoryLower == toLowerCase(product.category)
        roles ==
            (IF categoryLower \in {"dress", "dresses", "jumpsuit", "jumpsuits"} THEN <<"primary">> ELSE <<>>)
         \o (IF categoryLower \in {"blouses", "tops", "shirts", "tees", "t-shirts"} THEN <<"top">> ELSE <<>>)
         \o (IF categoryLower \in {"trousers", "pants", "skirts", "jeans", "chinos"} THEN <<"bottom">> ELSE <<>>)
         \o (IF categoryLower \in {"heels", "flats", "loafers", "sneakers", "derbies"} THEN <<"footwear">> ELSE <<>>)
         \o (IF categoryLower \in {"blazers", "jackets", "clutches", "handbags"} THEN <<"addOn">> ELSE <<>>)
    IN IF Len(roles) > 0 THEN roles ELSE <<"item">>

\* a price test with the Budget and Premium bands exchanged
InTierSwapped(product, tier, priceTiers) ==
    CASE tier = "budget" -> product.price * 100 >= priceTiers.premiumMin
      [] tier = "balanced" -> /\ product.price * 100 >= priceTiers.balancedMin
                              /\ product.price * 100 <= priceTiers.balancedMax
      [] tier = "premium" -> product.price * 100 <= priceTiers.budgetMax

\* the price test of a tier; priceTiers holds the boundaries scaled by 100
InTier(product, tier, priceTiers) ==
    CASE tier = "budget" -> product.price * 100 <= priceTiers.budgetMax
      [] tier = "balanced" -> /\ product.price * 100 >= priceTiers.balancedMin
                              /\ product.price * 100 <= priceTiers.balancedMax
      [] tier = "premium" -> product.price * 100 >= priceTiers.premiumMin

scoreProductForRole(product, role, query, tier, priceTiers, otherItems) ==
    LET lowerQuery == toLowerCase(query)
        hasEvening == \/ Includes(lowerQuery, "evening")
                      \/ Includes(lowerQuery, "dinner")
                      \/ Includes(lowerQuery, "party")
        eveningTag(tag) == \/ Includes(toLowerCase(tag), "evening")
                           \/ Includes(toLowerCase(tag), "dinner")
                           \/ Includes(toLowerCase(tag), "party")
        delivery == [n \in DOMAIN otherItems |-> otherItems[n].deliveryDays]
    IN (IF InTier(product, tier, priceTiers) THEN 10 ELSE 0)
     + (IF hasEvening /\ \E n \in DOMAIN product.occasionTags : eveningTag(product.occasionTags[n])
        THEN 5 ELSE 0)
     + (IF Includes(lowerQuery, "formal") /\ product.formality = "formal" THEN 5 ELSE 0)
     + (IF Includes(lowerQuery, "smart") /\ product.formality = "smart_casual" THEN 5 ELSE 0)
     \* |deliveryDays - sum / n| <= 2, multiplied by n
     + (IF /\ Len(otherItems) > 0
           /\ Abs(product.deliveryDays * Len(otherItems) - SumSeq(delivery)) <= 2 * Len(otherItems)
        THEN 3 ELSE 0)

\* pool.find(p => p.id === id): <<p>> or <<>>
FindById(pool, id) ==
    LET hit == SelectSeq(pool, LAMBDA p : p.id = id)
    IN IF hit = <<>> THEN <<>> ELSE <<hit[1]>>

CartItem(product, role) ==
    [id |-> product.id, title |-> product.title, brand |-> product.brand,
     price |-> product.price, category |-> product.category, color |-> product.color,
     why |-> "", role |-> role]

\* candidates.sort((a, b) => b.score - a.score)[0]: the first candidate of the highest score
\* scores[n] is the score of cands[n]
BestOf(cands, scores) ==
    cands[CHOOSE n \in DOMAIN cands :
             /\ \A m \in DOMAIN cands : scores[m] <= scores[n]
             /\ \A m \in 1..(n - 1) : scores[m] < scores[n]]

\* the products of the bundle so far, looked up in the pool
SelectedProducts(pool, bundle) ==
    LET found == SelectSeq(bundle, LAMBDA b : FindById(pool, b.id) # <<>>)
    IN [n \in DOMAIN found |-> FindById(pool, found[n].id)[1]]

BundleIds(bundle) == {bundle[n].id : n \in DOMAIN bundle}

BundleRoles(bundle) == {bundle[n].role : n \in DOMAIN bundle}

\* the anchor product of a build: looked up in the filtered pool
AnchorIn(pool, anchorProductId) ==
    IF Truthy(anchorProductId) THEN FindById(pool, anchorProductId) ELSE <<>>

\* the pool of a tier, the anchor left out
TierPool(pool, anchor, tier, priceTiers) ==
    SelectSeq(pool, LAMBDA p : ~(anchor # <<>> /\ p.id = anchor[1].id) /\ InTier(p, tier, priceTiers))

\* a builder that gives the anchor the first role of the template
TemplateFirstRole(anchorProduct, template) == template[1].role

\* the role given to the anchor by buildBundleWithTemplate
TemplateAnchorRole(anchorProduct, template) ==
    LET cands == classifyProductRole(anchorProduct)
        direct == SelectSeq(cands, LAMBDA r : r \in Range(TemplateRoles(template)))
        byCategory == SelectSeq(template, LAMBDA e : anchorProduct.category \in Range(e.cats))
    IN IF direct # <<>> THEN direct[1]
       ELSE IF byCategory # <<>> THEN byCategory[1].role
       ELSE cands[1]

NullBundle == [null |-> TRUE]

\* the loop over Object.entries(template.roles), from entry k on
RECURSIVE FillTemplateRoles(_, _, _, _, _, _, _, _)
FillTemplateRoles(pool, filteredPool, template, k, bundle, query, tier, priceTiers) ==
    IF k > Len(template) THEN bundle
    ELSE IF template[k].role \in BundleRoles(bundle)
    THEN FillTemplateRoles(pool, filteredPool, template, k + 1, bundle, query, tier, priceTiers)
    ELSE LET selectedProducts == SelectedProducts(pool, bundle)
             candidates == SelectSeq(filteredPool,
                               LAMBDA p : /\ p.id \notin BundleIds(bundle)
                                          /\ p.category \in Range(template[k].cats))
             Score(p) == scoreProductForRole(p, template[k].role, query, tier, priceTiers, selectedProducts)
         IN IF Len(candidates) = 0 THEN NullBundle
            ELSE FillTemplateRoles(pool, filteredPool, template, k + 1,
                                   Append(bundle, CartItem(BestOf(candidates, [n \in DOMAIN candidates |-> Score(candidates[n])]),
                                                   template[k].role)),
                                   query, tier, priceTiers)

buildBundleWithTemplate(pool, template, tier, query, priceTiers, anchorProductId) ==
    LET anchor == AnchorIn(pool, anchorProductId)
        filteredPool == TierPool(pool, anchor, tier, priceTiers)
        start == IF anchor # <<>>
                 THEN <<CartItem(anchor[1], TemplateAnchorRole(anchor[1], template))>>
                 ELSE <<>>
        bundle == FillTemplateRoles(pool, filteredPool, template, 1, start, query, tier, priceTiers)
    IN IF bundle # NullBundle /\ Len(bundle) = Len(template) THEN bundle ELSE NullBundle

validateBundle(bundle, template) ==
    LET requiredRoles == Range(TemplateRoles(template))
        bundleRoles == BundleRoles(bundle)
    IN Cardinality(requiredRoles) = Cardinality(bundleRoles) /\ requiredRoles \subseteq bundleRoles

rolePriority == <<"primary", "top", "bottom", "footwear", "addOn">>

\* the role-priority loop of buildFallbackBundle, from priority k on
RECURSIVE FillFallbackRoles(_, _, _, _, _, _, _, _)
FillFallbackRoles(pool, filteredPool, k, bundle, usedRoles, query, tier, priceTiers) ==
    IF k > Len(rolePriority) \/ Len(bundle) >= 3 THEN bundle
    ELSE IF rolePriority[k] \in usedRoles
    THEN FillFallbackRoles(pool, filteredPool, k + 1, bundle, usedRoles, query, tier, priceTiers)
    ELSE LET role == rolePriority[k]
             candidates == SelectSeq(filteredPool,
                               LAMBDA p : /\ p.id \notin BundleIds(bundle)
                                          /\ role \in Range(classifyProductRole(p)))
             Score(p) == scoreProductForRole(p, role, query, tier, priceTiers,
                                             SelectedProducts(pool, bundle))
         IN IF Len(candidates) = 0
            THEN FillFallbackRoles(pool, filteredPool, k + 1, bundle, usedRoles, query, tier, priceTiers)
            ELSE LET selected == BestOf(candidates, [n \in DOMAIN candidates |-> Score(candidates[n])])
                     inPriority == SelectSeq(classifyProductRole(selected),
                                             LAMBDA r : r \in Range(rolePriority))
                     assignedRole == IF inPriority # <<>> THEN inPriority[1] ELSE role
                 IN FillFallbackRoles(pool, filteredPool, k + 1,
                                      Append(bundle, CartItem(selected, assignedRole)),
                                      usedRoles \cup {assignedRole}, query, tier, priceTiers)

\* a padding loop that does not consult usedProductIds
RECURSIVE PadBundleAgain(_, _)
PadBundleAgain(rest, bundle) ==
    IF rest = <<>> \/ Len(bundle) >= 3 THEN bundle
    ELSE PadBundleAgain(Tail(rest),
                        Append(bundle, CartItem(Head(rest), classifyProductRole(Head(rest))[1])))

\* the padding loop of buildFallbackBundle
RECURSIVE PadBundle(_, _)
PadBundle(rest, bundle) ==
    IF rest = <<>> \/ Len(bundle) >= 3 THEN bundle
    ELSE IF Head(rest).id \in BundleIds(bundle) THEN PadBundle(Tail(rest), bundle)
    ELSE PadBundle(Tail(rest), Append(bundle, CartItem(Head(rest), classifyProductRole(Head(rest))[1])))

buildFallbackBundle(pool, tier, query, priceTiers, anchorProductId) ==
    LET anchor == AnchorIn(pool, anchorProductId)
        filteredPool == TierPool(pool, anchor, tier, priceTiers)
        start == IF anchor # <<>>
                 THEN <<CartItem(anchor[1], classifyProductRole(anchor[1])[1])>>
                 ELSE <<>>
        byRole == FillFallbackRoles(pool, filteredPool, 1, start, BundleRoles(start),
                                    query, tier, priceTiers)
    IN Take(PadBundle(filteredPool, byRole), 3)

\* a builder that tries the templates from the last to the first
RECURSIVE buildTierBundleLastFirst(_, _, _, _, _, _)
buildTierBundleLastFirst(templates, products, tier, query, priceTiers, anchorProductId) ==
    IF templates = <<>>
    THEN buildFallbackBundle(products, tier, query, priceTiers, anchorProductId)
    ELSE LET bundle == buildBundleWithTemplate(products, templates[Len(templates)], tier, query,
                                               priceTiers, anchorProductId)
         IN IF bundle # NullBundle /\ validateBundle(bundle, templates[Len(templates)])
            THEN bundle
            ELSE buildTierBundleLastFirst(SubSeq(templates, 1, Len(templates) - 1), products,
                                          tier, query, priceTiers, anchorProductId)

\* buildTierBundle from the given templates on: the first template, in order,
\* that yields a valid bundle, and the fallback when none does
RECURSIVE buildTierBundle(_, _, _, _, _, _)
buildTierBundle(templates, products, tier, query, priceTiers, anchorProductId) ==
    IF templates = <<>>
    THEN buildFallbackBundle(products, tier, query, priceTiers, anchorProductId)
    ELSE LET bundle == buildBundleWithTemplate(products, Head(templates), tier, query,
                                               priceTiers, anchorProductId)
         IN IF bundle # NullBundle /\ validateBundle(bundle, Head(templates))
            THEN bundle
            ELSE buildTierBundle(Tail(templates), products, tier, query, priceTiers, anchorProductId)

\* [...products].sort((a, b) => a.price - b.price), as the list of prices
RECURSIVE InsertPrice(_, _)
InsertPrice(sorted, x) ==
    IF sorted = <<>> THEN <<x>>
    ELSE IF Head(sorted) <= x THEN <<Head(sorted)>> \o InsertPrice(Tail(sorted), x)
    ELSE <<x>> \o sorted

RECURSIVE SortedPricesFrom(_, _)
SortedPricesFrom(sorted, products) ==
    IF products = <<>> THEN sorted
    ELSE SortedPricesFrom(InsertPrice(sorted, Head(products).price), Tail(products))

SortedPrices(products) == SortedPricesFrom(<<>>, products)

\* the fixed threshold below which the tiers are rank thirds
DegenerateRange == 10

\* tier boundaries that are price quantiles whatever the price range
PriceTiersByQuantile(products) ==
    LET sortedByPrice == SortedPrices(products)
        minPrice == sortedByPrice[1]
        priceRange == sortedByPrice[Len(sortedByPrice)] - minPrice
    IN [budgetMax |-> 100 * minPrice + 33 * priceRange,
        balancedMin |-> 100 * minPrice + 33 * priceRange,
        balancedMax |-> 100 * minPrice + 67 * priceRange,
        premiumMin |-> 100 * minPrice + 67 * priceRange]

\* the tier boundaries of a filtered pool of at least 3 products, scaled by 100
PriceTiers(products) ==
    LET sortedByPrice == SortedPrices(products)
        n == Len(sortedByPrice)
        minPrice == sortedByPrice[1]
        maxPrice == sortedByPrice[n]
        priceRange == maxPrice - minPrice
        third == n \div 3
    IN IF priceRange < DegenerateRange
       THEN \* 0-based indices of the code, plus one
            [budgetMax |-> 100 * sortedByPrice[Max2(third - 1, 0) + 1],
             balancedMin |-> 100 * sortedByPrice[third + 1],
             balancedMax |-> 100 * sortedByPrice[Min2(third * 2, n - 1) + 1],
             premiumMin |-> 100 * sortedByPrice[Min2(third * 2 + 1, n - 1) + 1]]
       ELSE [budgetMax |-> 100 * minPrice + 33 * priceRange,
             balancedMin |-> 100 * minPrice + 33 * priceRange,
             balancedMax |-> 100 * minPrice + 67 * priceRange,
             premiumMin |-> 100 * minPrice + 67 * priceRange]

\* Guardrail: "smart" with an evening/dinner/party context and neither
\* "casual" nor "relaxed" excludes Tees/T-Shirts
TeesGuardrail(p, lowerQuery) ==
    LET hasSmart == Includes(lowerQuery, "smart")
        hasEvening == \/ Includes(lowerQuery, "evening")
                      \/ Includes(lowerQuery, "dinner")
                      \/ Includes(lowerQuery, "party")
        hasCasualOrRelaxed == Includes(lowerQuery, "casual") \/ Includes(lowerQuery, "relaxed")
    IN (hasSmart /\ hasEvening /\ ~hasCasualOrRelaxed)
          => (p.category # "Tees" /\ p.category # "T-Shirts")

pinkKeywords == <<"pink", "magenta", "pastel", "bold", "pop color">>

\* a pink guardrail that lets every product pass
PinkAllowed(p, lowerQuery, audience) == TRUE

\* Guardrail: men without a pink-adjacent keyword in the query get no pink item
PinkGuardrail(p, lowerQuery, audience) ==
    LET hasPinkRequest == \E n \in DOMAIN pinkKeywords : Includes(lowerQuery, pinkKeywords[n])
    IN (audience = "men" /\ ~hasPinkRequest) => toLowerCase(p.color) # "pink"

\* the hard filter of buildCarts: scenario, audience, whitelist and, inside the
\* audience branch, the guardrails
FilterProducts(products, query, audience, scenarioId, allowUnisexMix) ==
    LET lowerQuery == toLowerCase(query)
        Keep(p) ==
            /\ (Truthy(scenarioId) => p.scenarioId = scenarioId)
            /\ Truthy(audience) =>
                  /\ IF allowUnisexMix
                     THEN p.audience = audience \/ p.audience = "unisex"
                     ELSE p.audience = audience
                  /\ p.category \in Range(AUDIENCE_CATEGORY_WHITELIST[audience])
                  /\ TeesGuardrail(p, lowerQuery)
                  /\ PinkGuardrail(p, lowerQuery, audience)
    IN SelectSeq(products, Keep)

\* ROLE_TEMPLATES[scenarioId]?.[audience] || []
TemplatesFor(scenarioId, audience) ==
    IF Truthy(scenarioId) /\ Truthy(audience) /\ scenarioId \in DOMAIN ROLE_TEMPLATES
       /\ audience \in DOMAIN ROLE_TEMPLATES[scenarioId]
    THEN ROLE_TEMPLATES[scenarioId][audience]
    ELSE <<>>

\* the message of the Error buildCarts throws when a tier has no item
MissingTiersMessage(products, budget, balanced, premium, scenarioId, audience) ==
    "Could not build complete bundles for "
        \o Join((IF Len(budget) = 0 THEN <<"budget">> ELSE <<>>)
                 \o (IF Len(balanced) = 0 THEN <<"balanced">> ELSE <<>>)
                 \o (IF Len(premium) = 0 THEN <<"premium">> ELSE <<>>), ", ")
        \o " tier(s). Scenario: " \o (IF Truthy(scenarioId) THEN scenarioId ELSE "none")
        \o ", Audience: " \o (IF Truthy(audience) THEN audience ELSE "none")
        \o ", Templates available: "
        \o (IF Len(TemplatesFor(scenarioId, audience)) > 0 THEN "true" ELSE "false")
        \o ", Products: " \o ToString(Len(products))
        \o ", Categories: "
        \o (IF Len(products) > 0
            THEN Join(AddAllUnique(<<>>, [n \in DOMAIN products |-> products[n].category]), ", ")
            ELSE "none")

\* the end of buildCarts: the empty-bundle check and the returned bundles
CartsOrError(products, budget, balanced, premium, scenarioId, audience) ==
    IF Len(budget) = 0 \/ Len(balanced) = 0 \/ Len(premium) = 0
    THEN [ok |-> FALSE,
          error |-> MissingTiersMessage(products, budget, balanced, premium, scenarioId, audience),
          pool |-> products]
    ELSE [ok |-> TRUE, budget |-> budget, balanced |-> balanced, premium |-> premium,
          pool |-> products]

\* buildCarts from its hard-filtered "products" on
TierBundles(products, query, audience, scenarioId, anchorProductId) ==
    IF Len(products) < 3
    THEN [ok |-> FALSE, error |-> "Not enough products after filtering", pool |-> products]
    ELSE CartsOrError(products,
             buildTierBundle(TemplatesFor(scenarioId, audience), products, "budget", query,
                             PriceTiers(products), anchorProductId),
             buildTierBundle(TemplatesFor(scenarioId, audience), products, "balanced", query,
                             PriceTiers(products), anchorProductId),
             buildTierBundle(TemplatesFor(scenarioId, audience), products, "premium", query,
                             PriceTiers(products), anchorProductId),
             scenarioId, audience)

\* buildCarts: [ok |-> TRUE, budget, balanced, premium] or, for a thrown Error,
\* [ok |-> FALSE, error]; pool is the local "products" after the hard filter
buildCarts(candidates, query, audience, scenarioId, allowUnisexMix, anchorProductId) ==
    TierBundles(FilterProducts([n \in DOMAIN candidates |-> candidates[n].product],
                               query, audience, scenarioId, allowUnisexMix),
                query, audience, scenarioId, anchorProductId)

\* the reply of generateProductReasons for the items of the three bundles
\*   "no_key":   the gemini provider has no API key and returns its local reasons
\*   "short":    the provider returns no reason list at all
\*   "fallback": the openai provider has no API key, or caught an error
\*   "padded":   the openai provider got one reason list and padded the rest
\*   "blank":    the reason lists of the provider start with an empty string
ReasonReplies == {"no_key", "short", "fallback", "padded", "blank"}

Reasons(reply, items) ==
    CASE reply = "no_key" ->
             [n \in DOMAIN items |-> <<"Perfect " \o items[n].role \o " for this look",
                                        "Good value for money", "Popular choice">>]
      [] reply = "fallback" ->
             [n \in DOMAIN items |-> <<"Matches your search criteria",
                                        "Good value for money", "Popular choice">>]
      [] reply = "padded" ->
             [n \in DOMAIN items |->
                 IF n = 1 THEN <<"Fits the request", "Well made", "Fair price">>
                 ELSE <<"Matches your search", "Good quality", "Great value">>]
      [] reply = "blank" -> [n \in DOMAIN items |-> <<"", "", "">>]
      [] OTHER -> <<>>

\* an assignReasons that takes the first reason or nothing
FirstReasonOnly(items, reasons, offset) ==
    [n \in DOMAIN items |->
        [items[n] EXCEPT !.why =
            IF offset + n <= Len(reasons) THEN reasons[offset + n][1] ELSE ""]]

\* assignReasons over the concatenation budget, balanced, premium
WithWhy(items, reasons, offset) ==
    [n \in DOMAIN items |->
        [items[n] EXCEPT !.why =
            IF offset + n <= Len(reasons) /\ Truthy(reasons[offset + n][1])
            THEN reasons[offset + n][1]
            ELSE "Perfect " \o items[n].role \o " for this look"]]

generateBundleNotes(items, tier) ==
    <<"A complete " \o toLowerCase(tier) \o " look featuring "
          \o Join([n \in DOMAIN items |-> items[n].category], ", "),
      "Perfectly coordinated pieces ("
          \o Join([n \in DOMAIN items |-> items[n].role], ", ")
          \o ") for a polished ensemble",
      "Ready-to-wear combination that works together seamlessly">>

generateCartNotes(carts, reply) ==
    LET allItems == carts.budget \o carts.balanced \o carts.premium
        reasons == Reasons(reply, allItems)
        budgetWithWhy == WithWhy(carts.budget, reasons, 0)
        balancedWithWhy == WithWhy(carts.balanced, reasons, Len(carts.budget))
        premiumWithWhy == WithWhy(carts.premium, reasons, Len(carts.budget) + Len(carts.balanced))
    IN <<[name |-> "Budget", items |-> budgetWithWhy,
          notes |-> generateBundleNotes(budgetWithWhy, "Budget")],
         [name |-> "Balanced", items |-> balancedWithWhy,
          notes |-> generateBundleNotes(balancedWithWhy, "Balanced")],
         [name |-> "Premium", items |-> premiumWithWhy,
          notes |-> generateBundleNotes(premiumWithWhy, "Premium")]>>

\* the candidate list POST hands to buildCarts
CartCandidates(cat, req) ==
    LET byAudience == IF req.audience \in Audiences
                      THEN SelectSeq(cat, LAMBDA p : p.audience = req.audience)
                      ELSE cat
        filteredCatalog == IF Truthy(req.scenarioId)
                           THEN SelectSeq(byAudience, LAMBDA p : p.scenarioId = req.scenarioId)
                           ELSE byAudience
        anchor == IF Truthy(req.anchorProductId) THEN FindById(cat, req.anchorProductId) ELSE <<>>
    IN IF anchor # <<>>
       THEN \* "complete the look": the whole scenario/audience pool, the anchor first
            LET anchorInFiltered == FindById(filteredCatalog, req.anchorProductId) # <<>>
                withAnchor ==
                    IF /\ ~anchorInFiltered
                       /\ (~Truthy(req.audience) \/ anchor[1].audience = req.audience)
                       /\ (~Truthy(req.scenarioId) \/ anchor[1].scenarioId = req.scenarioId)
                    THEN <<anchor[1]>> \o filteredCatalog
                    ELSE filteredCatalog
                results == [n \in DOMAIN withAnchor |->
                               [product |-> withAnchor[n],
                                score |-> IF withAnchor[n].id = req.anchorProductId
                                          THEN 100000 ELSE 5000]]
            IN SelectSeq(results, LAMBDA r : r.product.id = req.anchorProductId)
               \o SelectSeq(results, LAMBDA r : r.product.id # req.anchorProductId)
       ELSE searchProducts(filteredCatalog, req.query, 100, Null, "relevance")

\* POST after buildCarts has returned or thrown; thrown is the message of the
\* caught Error, which the handler writes to the console
CartsOutcome(carts) ==
    IF ~carts.ok
    THEN [status |-> 500, error |-> "Internal server error", thrown |-> carts.error,
          pool |-> carts.pool]
    ELSE [status |-> 200, carts |-> carts, pool |-> carts.pool]

\* POST from the candidate list up to the call of generateCartNotes
CandidatesOutcome(searchResults, req, audience, scenarioId) ==
    IF Len(searchResults) < 3
    THEN [status |-> 400, error |-> "Not enough products found", pool |-> <<>>]
    ELSE CartsOutcome(buildCarts(searchResults, req.query, audience, scenarioId,
                                 req.allowUnisexMix, req.anchorProductId))

\* a query test that lets the empty string pass
QueryUndefined(query) == query = Null

\* !query || typeof query !== "string", for a body whose query is a string or absent
QueryMissing(query) == ~Truthy(query)

\* POST up to the call of generateCartNotes, for the scope (audience,
\* scenarioId) of the request: an error response, or the carts of buildCarts;
\* pool is the filtered product list of buildCarts when it was called
BuildFor(cat, req, audience, scenarioId) ==
    IF QueryMissing(req.query)
    THEN [status |-> 400, error |-> "Query is required", pool |-> <<>>]
    ELSE CandidatesOutcome(
             CartCandidates(cat, [req EXCEPT !.audience = audience, !.scenarioId = scenarioId]),
             req, audience, scenarioId)

\* a handler that builds for the requested audience but for no scenario
CartOutcomeAnyScenario(cat, req) == BuildFor(cat, req, req.audience, Null)

CartOutcome(cat, req) == BuildFor(cat, req, req.audience, req.scenarioId)

\* the response of POST /api/cart/build, given the reply of the reasons provider
CartResponse(outcome, reply) ==
    IF outcome.status = 200
    THEN [status |-> 200, carts |-> generateCartNotes(outcome.carts, reply),
          pool |-> outcome.pool, built |-> outcome.carts, reply |-> reply]
    ELSE outcome

-----------------------------------------------------------------------------
(* src/app/api/search/route.ts, for a first request: a body with query and *)
(* audience, and no session, followUp, userAnswer or constraintsOverride   *)

detectIntent(query) ==
    LET lowerQuery == toLowerCase(query)
        goalPatterns == <<"i need", "help me", "for my", "looking for", "want to", "i want",
                          "trying to", "need to", "i have", "i'm going", "i'm attending",
                          "attending", "going to">>
        contextWords == <<"date night", "wedding", "dinner", "party", "event", "occasion",
                          "weekend", "evening", "night out", "meeting", "interview",
                          "celebration", "vacation", "travel", "trip">>
    IN IF \E n \in DOMAIN goalPatterns : Includes(lowerQuery, goalPatterns[n]) THEN "GOAL"
       ELSE IF \E n \in DOMAIN contextWords : Includes(lowerQuery, contextWords[n]) THEN "GOAL"
       ELSE IF Len(SplitWords(lowerQuery)) <= 2 THEN "AMBIGUOUS"
       ELSE "CLEAR"

inferAudience(query) ==
    LET lowerQuery == toLowerCase(query)
        AnyWord(words) == \E n \in DOMAIN words : HasWord(lowerQuery, words[n])
    IN IF AnyWord(<<"men", "mens", "for my husband", "for my boyfriend", "for him">>) THEN "men"
       ELSE IF AnyWord(<<"women", "womens", "dress", "dresses", "heels", "for my wife",
                     "for my girlfriend", "for her">>) THEN "women"
       ELSE IF AnyWord(<<"backpack", "backpacks", "beanie", "beanies", "gloves", "sunglasses">>)
       THEN "unisex"
       ELSE Null

\* the briefs generateShoppingBrief yields: the local fallback (every field
\* null) and a brief of the provider that names a category
Briefs ==
    {[budgetMax |-> NoNumber, category |-> c, color |-> Null, occasion |-> Null, style |-> Null] :
        c \in {Null, "Shirts"}}

\* brief.field ?? constraints.field
Coalesce(a, b, none) == IF a # none THEN a ELSE b

\* one entry of the results of the response
SearchResult(product, reasons) ==
    [id |-> product.id, title |-> product.title, brand |-> product.brand,
     price |-> product.price, category |-> product.category, color |-> product.color,
     scenarioId |-> product.scenarioId, reasons |-> reasons]

\* searchResults.map((r) => r.product)
ProductsOf(results) == [n \in DOMAIN results |-> results[n].product]

\* the second filter of the handler: budget and colour exclusion once more
DoubleCheck(results, extracted) ==
    SelectSeq(results,
              LAMBDA r : /\ ~(extracted.budgetMax # NoNumber
                               /\ r.product.price > extracted.budgetMax)
                         /\ ~(Truthy(extracted.colorExclude)
                               /\ toLowerCase(r.product.color)
                                      = toLowerCase(extracted.colorExclude)))

\* topProducts: the first 24 products of the re-search over the whole catalog
\* once the audience is known (newSession.asked); before, of the search over
\* the catalog, filtered once more
TopProducts(cat, req, asked, extracted) ==
    LET results == searchProducts(cat, req.query, IF asked THEN 30 ELSE 100, Null, "relevance")
    IN Take(ProductsOf(IF asked THEN results ELSE DoubleCheck(results, extracted)), 24)

\* the constraints of the response: merged with the brief once the audience is
\* known (newSession.asked), as extracted before
ResponseConstraints(asked, brief, extracted) ==
    IF asked
    THEN [budgetMax |-> Coalesce(brief.budgetMax, extracted.budgetMax, NoNumber),
          category |-> Coalesce(brief.category, extracted.category, Null),
          color |-> Coalesce(brief.color, extracted.color, Null),
          colorExclude |-> Null,
          occasion |-> Coalesce(brief.occasion, extracted.occasion, Null),
          style |-> Coalesce(brief.style, extracted.style, Null)]
    ELSE [budgetMax |-> extracted.budgetMax, category |-> extracted.category,
          color |-> extracted.color, colorExclude |-> extracted.colorExclude,
          occasion |-> extracted.occasion, style |-> extracted.style]

\* the JSON body of the response
SearchJson(req, currentAudience, constraints, topProducts, reasons) ==
    [status |-> 200,
     intent |-> detectIntent(req.query),
     assistantQuestion |-> IF currentAudience # Null THEN Null
                           ELSE "Who is this for: Men, Women, or Unisex?",
     session |-> [originalQuery |-> req.query, asked |-> currentAudience # Null,
                  audience |-> currentAudience],
     audience |-> currentAudience,
     scenarioId |-> IF topProducts # <<>> /\ Truthy(topProducts[1].scenarioId)
                    THEN topProducts[1].scenarioId ELSE Null,
     constraints |-> constraints,
     results |-> [n \in DOMAIN topProducts |->
                     SearchResult(topProducts[n],
                                  IF n <= Len(reasons) THEN reasons[n]
                                  ELSE <<"Matches your search", "Good quality", "Great value">>)]]

\* the handler from the search to the response
SearchWith(cat, req, brief, reply, currentAudience, extracted, topProducts) ==
    SearchJson(req, currentAudience,
               ResponseConstraints(currentAudience # Null, brief, extracted),
               topProducts, Reasons(reply, topProducts))

\* the handler from the audience to the response
SearchFor(cat, req, brief, reply, currentAudience, extracted) ==
    SearchWith(cat, req, brief, reply, currentAudience, extracted,
               TopProducts(cat, req, currentAudience # Null, extracted))

\* the handler after loadCatalog
SearchFlow(cat, req, brief, reply) ==
    SearchFor(cat, req, brief, reply,
              IF req.audience \in Audiences THEN req.audience ELSE inferAudience(req.query),
              extractConstraints(req.query, Null))

\* the response of POST /api/search
SearchResponse(cat, req, brief, reply) ==
    IF QueryMissing(req.query)
    THEN [status |-> 400, error |-> "Query is required"]
    ELSE SearchFlow(cat, req, brief, reply)

-----------------------------------------------------------------------------
(* src/app/api/search/route.ts, the whole handler: a body with query,      *)
(* audience, userAnswer, session, followUp and constraintsOverride         *)

\* a body without a session, and a body without constraintsOverride
NoSession == [absent |-> TRUE]
NoConstraints == [absent |-> TRUE]

\* an object without properties
EmptyObject == [f \in {} |-> Null]

\* object.field, none when the object has no such property
Field(object, f, none) == IF f \in DOMAIN object THEN object[f] ELSE none

\* src/lib/llm/constraint-delta.ts, parseConstraintDeltaLocal
deltaBudgetPattern ==
    <<[t |-> "alt", lits |-> <<"under", "below", "less than", "upto", "up to">>],
      [t |-> "ws"], [t |-> "opt", lits |-> Currency], [t |-> "ws"], [t |-> "num"]>>

deltaExcludePattern == <<[t |-> "alt", lits |-> <<"exclude">>], [t |-> "ws1"], [t |-> "word"]>>

deltaIncludePattern ==
    <<[t |-> "alt", lits |-> <<"only", "show", "in">>], [t |-> "ws1"], [t |-> "word"]>>

DeltaColors ==
    <<"black", "white", "navy", "gray", "blue", "red", "green", "pink", "purple", "yellow",
      "orange">>

DeltaCategories ==
    <<"shirts", "trousers", "jeans", "t-shirts", "blazers", "dresses", "sneakers", "loafers",
      "handbags", "watches">>

\* the delta once the three patterns are matched against the lower-cased follow-up
LocalDelta(lower, budgetMatch, excludeColorMatch, includeColorMatch) ==
       (IF budgetMatch # <<>> THEN [budgetMax |-> parseInt(budgetMatch[1])] ELSE EmptyObject)
    @@ (IF excludeColorMatch # <<>> THEN [colorExclude |-> Capitalize(excludeColorMatch[1])]
        ELSE EmptyObject)
    @@ (IF includeColorMatch # <<>> /\ includeColorMatch[1] \in Range(DeltaColors)
        THEN [colorInclude |-> Capitalize(includeColorMatch[1])] ELSE EmptyObject)
    @@ (IF FirstIncluded(lower, DeltaCategories) = Null THEN EmptyObject
        ELSE IF FirstIncluded(lower, DeltaCategories) = "t-shirts" THEN [category |-> "T-Shirts"]
        ELSE [category |-> Capitalize(FirstIncluded(lower, DeltaCategories))])
    @@ (IF Includes(lower, "formal") THEN [style |-> "Formal", occasion |-> "Formal"]
        ELSE IF Includes(lower, "more relaxed") \/ Includes(lower, "casual")
        THEN [style |-> "Casual", occasion |-> "Casual"]
        ELSE EmptyObject)
    @@ (IF Includes(lower, "cheapest") \/ Includes(lower, "lowest price")
        THEN [sortBy |-> "price_asc"]
        ELSE IF Includes(lower, "expensive") \/ Includes(lower, "highest price")
        THEN [sortBy |-> "price_desc"]
        ELSE EmptyObject)

parseConstraintDeltaLocal(followUp) ==
    LocalDelta(toLowerCase(followUp),
               RegexMatch(followUp, deltaBudgetPattern),
               RegexMatch(followUp, deltaExcludePattern),
               RegexMatch(followUp, deltaIncludePattern))

\* the JSON object the prompt of generateConstraintDeltaOpenAI asks the
\* provider for: every field present, "null if not specified" (a null list
\* is <<>>, a null number NoNumber)
NullDelta ==
    [budgetMax |-> NoNumber, category |-> Null, colorInclude |-> Null, colorExclude |-> Null,
     style |-> Null, occasion |-> Null, includeKeywords |-> <<>>, excludeKeywords |-> <<>>,
     sortBy |-> Null]

\* the provider's reading of a follow-up: what the local parser finds, in the
\* shape of the prompt
ProviderDelta(followUp) == parseConstraintDeltaLocal(followUp) @@ NullDelta

\* generateConstraintDelta: the local parser without an API key, without
\* content or on an error, the provider's JSON object otherwise
Deltas(followUp) == {parseConstraintDeltaLocal(followUp), ProviderDelta(followUp)}

\* { ...existingConstraints, ...delta, color: ..., colorExclude: ... }
mergedConstraints(existingConstraints, delta) ==
    [f \in DOMAIN existingConstraints \cup DOMAIN delta \cup {"color", "colorExclude"} |->
        CASE f = "color" ->
                 IF Truthy(Field(delta, "colorExclude", Null)) THEN Null
                 ELSE IF Truthy(Field(delta, "colorInclude", Null)) THEN delta.colorInclude
                 ELSE Field(existingConstraints, "color", Null)
          [] f = "colorExclude" ->
                 IF Truthy(Field(delta, "colorExclude", Null)) THEN delta.colorExclude
                 ELSE Field(existingConstraints, "colorExclude", Null)
          [] OTHER -> IF f \in DOMAIN delta THEN delta[f] ELSE existingConstraints[f]]

\* [title, description].join(" ").toLowerCase()
TitleText(product) == toLowerCase(Join(<<product.title, product.description>>, " "))

\* the include keywords filter of the follow-up: every keyword in the text
FollowUpIncludeOk(product, merged) ==
    ~(/\ Len(Field(merged, "includeKeywords", <<>>)) > 0
      /\ ~\A n \in DOMAIN merged.includeKeywords :
             Includes(TitleText(product), toLowerCase(merged.includeKeywords[n])))

\* the exclude keywords filter of the follow-up
FollowUpExcludeOk(product, merged) ==
    ~(/\ Len(Field(merged, "excludeKeywords", <<>>)) > 0
      /\ \E n \in DOMAIN merged.excludeKeywords :
             Includes(TitleText(product), toLowerCase(merged.excludeKeywords[n])))

\* the filter of the follow-up on one product
FollowUpOk(product, merged, currentAudience) ==
    /\ ~(currentAudience # Null /\ product.audience # currentAudience)
    /\ ~(Field(merged, "budgetMax", NoNumber) # NoNumber /\ product.price > merged.budgetMax)
    /\ ~(Truthy(Field(merged, "category", Null)) /\ product.category # merged.category)
    /\ ~(Truthy(merged.color) /\ product.color # merged.color)
    /\ ~(Truthy(merged.colorExclude)
          /\ toLowerCase(product.color) = toLowerCase(merged.colorExclude))
    /\ ~(Truthy(Field(merged, "style", Null)) /\ product.style # merged.style)
    /\ ~(Truthy(Field(merged, "occasion", Null))
          /\ ~\E n \in DOMAIN product.occasionTags :
                 toLowerCase(product.occasionTags[n]) = toLowerCase(merged.occasion))
    /\ FollowUpExcludeOk(product, merged)
    /\ FollowUpIncludeOk(product, merged)

\* the comparator of the follow-up sort
FollowUpCompare(a, b, sortBy) ==
    IF sortBy = "price_asc" /\ a.product.price # b.product.price
    THEN a.product.price - b.product.price
    ELSE IF sortBy = "price_desc" /\ a.product.price # b.product.price
    THEN b.product.price - a.product.price
    ELSE b.score - a.score

\* Array.prototype.sort is stable and the comparator is a total preorder
RECURSIVE InsertFollowUp(_, _, _)
InsertFollowUp(sorted, r, sortBy) ==
    IF sorted = <<>> THEN <<r>>
    ELSE IF FollowUpCompare(Head(sorted), r, sortBy) <= 0
         THEN <<Head(sorted)>> \o InsertFollowUp(Tail(sorted), r, sortBy)
         ELSE <<r>> \o sorted

RECURSIVE SortFollowUp(_, _, _)
SortFollowUp(sorted, rest, sortBy) ==
    IF rest = <<>> THEN sorted
    ELSE SortFollowUp(InsertFollowUp(sorted, Head(rest), sortBy), Tail(rest), sortBy)

\* one entry of the results of a follow-up response
FollowUpResult(product, reasons) ==
    [id |-> product.id, title |-> product.title, brand |-> product.brand,
     price |-> product.price, category |-> product.category, color |-> product.color,
     reasons |-> reasons]

\* the JSON body of a follow-up response; delta and merged are the handler's
\* locals of the same names
FollowUpJson(req, delta, merged, currentAudience, filteredProducts, reasons) ==
    [status |-> 200,
     intent |-> "CLEAR",
     assistantQuestion |-> Null,
     session |-> [req.session EXCEPT !.asked = TRUE, !.audience = currentAudience],
     audience |-> currentAudience,
     constraints |-> [budgetMax |-> Field(merged, "budgetMax", NoNumber),
                      category |-> Field(merged, "category", Null),
                      color |-> merged.color,
                      colorExclude |-> merged.colorExclude,
                      occasion |-> Field(merged, "occasion", Null),
                      style |-> Field(merged, "style", Null)],
     results |-> [n \in DOMAIN filteredProducts |->
                     FollowUpResult(filteredProducts[n],
                                    IF n <= Len(reasons) THEN reasons[n]
                                    ELSE <<"Matches your search", "Good quality", "Great value">>)],
     delta |-> delta,
     merged |-> merged]

\* the follow-up once the constraints are merged
FollowUpWith(req, reply, delta, merged, currentAudience, filteredProducts) ==
    FollowUpJson(req, delta, merged, currentAudience, filteredProducts,
                 Reasons(reply, filteredProducts))

\* filter, sort and slice(0, 24) of the candidates
FollowUpProducts(searchResults, merged, currentAudience) ==
    ProductsOf(Take(SortFollowUp(<<>>,
                                 SelectSeq(searchResults,
                                           LAMBDA r : FollowUpOk(r.product, merged, currentAudience)),
                                 Field(merged, "sortBy", Null)), 24))

\* constraintsOverride || extractConstraints(session.originalQuery)
ExistingConstraints(req) ==
    IF req.constraintsOverride # NoConstraints THEN req.constraintsOverride
    ELSE extractConstraints(req.session.originalQuery, Null)

\* session.audience || audience || null
FollowUpAudience(req) ==
    IF Truthy(req.session.audience) THEN req.session.audience
    ELSE IF Truthy(req.audience) THEN req.audience
    ELSE Null

\* the follow-up branch of the handler
FollowUpMerged(cat, req, reply, delta, merged) ==
    FollowUpWith(req, reply, delta, merged, FollowUpAudience(req),
                 FollowUpProducts(searchProducts(cat, req.session.originalQuery, 100, Null,
                                                 "relevance"),
                                  merged, FollowUpAudience(req)))

FollowUpFlow(cat, req, reply, delta) ==
    FollowUpMerged(cat, req, reply, delta, mergedConstraints(ExistingConstraints(req), delta))

\* the audience a user's answer names: "men" is looked for first
AnswerAudience(userAnswer) ==
    LET lowerAnswer == toLowerCase(userAnswer)
    IN IF Includes(lowerAnswer, "men") THEN "men"
       ELSE IF Includes(lowerAnswer, "women") THEN "women"
       ELSE IF Includes(lowerAnswer, "unisex") THEN "unisex"
       ELSE Null

\* "Infer or get audience": the request, the session, the answer, the query
RequestAudience(req) ==
    IF req.audience \in Audiences THEN req.audience
    ELSE IF req.session # NoSession /\ Truthy(req.session.audience) THEN req.session.audience
    ELSE IF Truthy(req.userAnswer) /\ AnswerAudience(req.userAnswer) # Null
    THEN AnswerAudience(req.userAnswer)
    ELSE inferAudience(req.query)

\* session || { originalQuery: query, asked: false, audience: null }
StartSession(req) ==
    IF req.session # NoSession THEN req.session
    ELSE [originalQuery |-> req.query, asked |-> FALSE, audience |-> Null]

\* the audience question is asked
Asks(req, audience) == audience = Null /\ ~StartSession(req).asked

\* the audience after the answer is parsed once more
FinalAudience(req, audience) ==
    IF ~Asks(req, audience) /\ Truthy(req.userAnswer) /\ audience = Null
    THEN AnswerAudience(req.userAnswer)
    ELSE audience

\* newSession when the response is built
NewSession(req, asks, currentAudience) ==
    IF asks THEN [StartSession(req) EXCEPT !.asked = FALSE, !.audience = Null]
    ELSE IF currentAudience # Null
    THEN [StartSession(req) EXCEPT !.asked = TRUE, !.audience = currentAudience]
    ELSE StartSession(req)

\* catalog.filter((p) => p.audience === currentAudience)
FilteredCatalog(cat, currentAudience) ==
    IF currentAudience = Null THEN cat
    ELSE SelectSeq(cat, LAMBDA p : p.audience = currentAudience)

\* topProducts: of the re-search over the catalog after the brief, or of the
\* search over the filtered catalog, filtered once more
SessionProducts(cat, req, briefed, currentAudience, extracted) ==
    Take(ProductsOf(IF briefed
                    THEN searchProducts(cat, req.query, 30, Null, "relevance")
                    ELSE DoubleCheck(searchProducts(FilteredCatalog(cat, currentAudience),
                                                    req.query, 100, Null, "relevance"),
                                     extracted)), 24)

\* the JSON body of the response of the original search flow
SessionJson(req, asks, currentAudience, newSession, constraints, topProducts, reasons) ==
    [status |-> 200,
     intent |-> detectIntent(req.query),
     assistantQuestion |-> IF asks THEN "Who is this for: Men, Women, or Unisex?" ELSE Null,
     session |-> newSession,
     audience |-> currentAudience,
     scenarioId |-> IF topProducts # <<>> /\ Truthy(topProducts[1].scenarioId)
                    THEN topProducts[1].scenarioId ELSE Null,
     constraints |-> constraints,
     results |-> [n \in DOMAIN topProducts |->
                     SearchResult(topProducts[n],
                                  IF n <= Len(reasons) THEN reasons[n]
                                  ELSE <<"Matches your search", "Good quality", "Great value">>)]]

\* the original flow once the products are found
SessionWith(req, brief, reply, asks, currentAudience, newSession, extracted, topProducts) ==
    SessionJson(req, asks, currentAudience, newSession,
                ResponseConstraints(Truthy(req.userAnswer) \/ newSession.asked, brief, extracted),
                topProducts, Reasons(reply, topProducts))

\* the original flow once the session is settled
SessionFor(cat, req, brief, reply, asks, currentAudience, newSession, extracted) ==
    SessionWith(req, brief, reply, asks, currentAudience, newSession, extracted,
                SessionProducts(cat, req, Truthy(req.userAnswer) \/ newSession.asked,
                                currentAudience, extracted))

\* the original flow once the audience is settled
SessionAs(cat, req, brief, reply, asks, currentAudience) ==
    SessionFor(cat, req, brief, reply, asks, currentAudience,
               NewSession(req, asks, currentAudience), extractConstraints(req.query, Null))

\* the original search flow of the handler
SessionFlow(cat, req, brief, reply) ==
    SessionAs(cat, req, brief, reply, Asks(req, RequestAudience(req)),
              FinalAudience(req, RequestAudience(req)))

\* the request is a follow-up: followUp && session
IsFollowUp(req) == Truthy(req.followUp) /\ req.session # NoSession

\* the request has neither a session nor an answer nor a follow-up
IsFirstRequest(req) ==
    req.session = NoSession /\ ~Truthy(req.userAnswer) /\ ~Truthy(req.followUp)

\* the response of POST /api/search to any body
SearchReply(cat, req, brief, reply, delta) ==
    IF IsFirstRequest(req) THEN SearchResponse(cat, req, brief, reply)
    ELSE IF QueryMissing(req.query) THEN [status |-> 400, error |-> "Query is required"]
    ELSE IF IsFollowUp(req) THEN FollowUpFlow(cat, req, reply, delta)
    ELSE SessionFlow(cat, req, brief, reply)

-----------------------------------------------------------------------------
(* generateCatalog (src/lib/catalog.ts as of the scenario catalog): the    *)
(* fields id, brand, price, category, color, style, scenarioId and         *)
(* audience of the generated products; title, description, stock and       *)
(* delivery are left out.                                                  *)

SCENARIOS ==
    << [id |-> "nyc_dinner",
        colors |-> <<"Navy", "Gray", "Black", "White", "Beige">>,
        priceRange |-> [min |-> 89, max |-> 450],
        heroProducts |->
         [men |->
            << [id |-> "prod-nyc-men-001", category |-> "Blazers", color |-> "Navy", price |-> 289],
               [id |-> "prod-nyc-men-002", category |-> "Shirts", color |-> "White", price |-> 89],
               [id |-> "prod-nyc-men-003", category |-> "Chinos", color |-> "Gray", price |-> 129],
               [id |-> "prod-nyc-men-004", category |-> "Loafers", color |-> "Brown", price |-> 199],
               [id |-> "prod-nyc-men-005", category |-> "Shirts", color |-> "Navy", price |-> 79],
               [id |-> "prod-nyc-men-006", category |-> "Blazers", color |-> "Black", price |-> 279] >>,
          women |->
            << [id |-> "prod-nyc-wom-001", category |-> "Blazers", color |-> "Navy", price |-> 299],
               [id |-> "prod-nyc-wom-002", category |-> "Blouses", color |-> "White", price |-> 89],
               [id |-> "prod-nyc-wom-003", category |-> "Trousers", color |-> "Gray", price |-> 119],
               [id |-> "prod-nyc-wom-004", category |-> "Heels", color |-> "Black", price |-> 149],
               [id |-> "prod-nyc-wom-005", category |-> "Clutches", color |-> "Black", price |-> 89],
               [id |-> "prod-nyc-wom-006", category |-> "Dresses", color |-> "Navy", price |-> 159] >>,
          unisex |->
            << [id |-> "prod-nyc-uni-001", category |-> "Blazers", color |-> "Navy", price |-> 269],
               [id |-> "prod-nyc-uni-002", category |-> "Overshirts", color |-> "White", price |-> 79],
               [id |-> "prod-nyc-uni-003", category |-> "Trousers", color |-> "Gray", price |-> 109],
               [id |-> "prod-nyc-uni-004", category |-> "Sneakers", color |-> "White", price |-> 129],
               [id |-> "prod-nyc-uni-005", category |-> "Backpacks", color |-> "Black", price |-> 199],
               [id |-> "prod-nyc-uni-006", category |-> "Sunglasses", color |-> "Black", price |-> 89] >>]],
       [id |-> "summer_wedding",
        colors |-> <<"Beige", "Navy", "Pink", "White", "Yellow">>,
        priceRange |-> [min |-> 79, max |-> 350],
        heroProducts |->
         [men |->
            << [id |-> "prod-wed-men-001", category |-> "Blazers", color |-> "Navy", price |-> 249],
               [id |-> "prod-wed-men-002", category |-> "Shirts", color |-> "White", price |-> 89],
               [id |-> "prod-wed-men-003", category |-> "Chinos", color |-> "Beige", price |-> 119],
               [id |-> "prod-wed-men-004", category |-> "Loafers", color |-> "Brown", price |-> 149],
               [id |-> "prod-wed-men-005", category |-> "Polos", color |-> "Navy", price |-> 69],
               [id |-> "prod-wed-men-006", category |-> "Derbies", color |-> "Brown", price |-> 179] >>,
          women |->
            << [id |-> "prod-wed-wom-001", category |-> "Dresses", color |-> "Beige", price |-> 189],
               [id |-> "prod-wed-wom-002", category |-> "Blazers", color |-> "Navy", price |-> 249],
               [id |-> "prod-wed-wom-003", category |-> "Heels", color |-> "Nude", price |-> 129],
               [id |-> "prod-wed-wom-004", category |-> "Clutches", color |-> "Beige", price |-> 89],
               [id |-> "prod-wed-wom-005", category |-> "Dresses", color |-> "Pink", price |-> 159],
               [id |-> "prod-wed-wom-006", category |-> "Blouses", color |-> "White", price |-> 79] >>,
          unisex |->
            << [id |-> "prod-wed-uni-001", category |-> "Jackets", color |-> "Beige", price |-> 199],
               [id |-> "prod-wed-uni-002", category |-> "Overshirts", color |-> "White", price |-> 89],
               [id |-> "prod-wed-uni-003", category |-> "Trousers", color |-> "Navy", price |-> 119],
               [id |-> "prod-wed-uni-004", category |-> "Sneakers", color |-> "White", price |-> 99],
               [id |-> "prod-wed-uni-005", category |-> "Sunglasses", color |-> "Brown", price |-> 79],
               [id |-> "prod-wed-uni-006", category |-> "Backpacks", color |-> "Beige", price |-> 89] >>]],
       [id |-> "biz_travel",
        colors |-> <<"Navy", "Gray", "Black", "White", "Beige">>,
        priceRange |-> [min |-> 59, max |-> 320],
        heroProducts |->
         [men |->
            << [id |-> "prod-trv-men-001", category |-> "Blazers", color |-> "Navy", price |-> 279],
               [id |-> "prod-trv-men-002", category |-> "Shirts", color |-> "White", price |-> 79],
               [id |-> "prod-trv-men-003", category |-> "Chinos", color |-> "Navy", price |-> 119],
               [id |-> "prod-trv-men-004", category |-> "Sneakers", color |-> "White", price |-> 129],
               [id |-> "prod-trv-men-005", category |-> "Shirts", color |-> "Blue", price |-> 69],
               [id |-> "prod-trv-men-006", category |-> "Polos", color |-> "Navy", price |-> 59] >>,
          women |->
            << [id |-> "prod-trv-wom-001", category |-> "Blazers", color |-> "Navy", price |-> 269],
               [id |-> "prod-trv-wom-002", category |-> "Blouses", color |-> "White", price |-> 79],
               [id |-> "prod-trv-wom-003", category |-> "Trousers", color |-> "Navy", price |-> 109],
               [id |-> "prod-trv-wom-004", category |-> "Sneakers", color |-> "White", price |-> 119],
               [id |-> "prod-trv-wom-005", category |-> "Clutches", color |-> "Black", price |-> 89],
               [id |-> "prod-trv-wom-006", category |-> "Blouses", color |-> "Blue", price |-> 69] >>,
          unisex |->
            << [id |-> "prod-trv-uni-001", category |-> "Jackets", color |-> "Navy", price |-> 249],
               [id |-> "prod-trv-uni-002", category |-> "Overshirts", color |-> "White", price |-> 79],
               [id |-> "prod-trv-uni-003", category |-> "Trousers", color |-> "Navy", price |-> 109],
               [id |-> "prod-trv-uni-004", category |-> "Sneakers", color |-> "White", price |-> 119],
               [id |-> "prod-trv-uni-005", category |-> "Backpacks", color |-> "Black", price |-> 199],
               [id |-> "prod-trv-uni-006", category |-> "Tees", color |-> "Navy", price |-> 39] >>]],
       [id |-> "chi_winter",
        colors |-> <<"Navy", "Gray", "Black", "Brown", "Olive">>,
        priceRange |-> [min |-> 69, max |-> 380],
        heroProducts |->
         [men |->
            << [id |-> "prod-chi-men-001", category |-> "Blazers", color |-> "Navy", price |-> 329],
               [id |-> "prod-chi-men-002", category |-> "Chinos", color |-> "Gray", price |-> 139],
               [id |-> "prod-chi-men-003", category |-> "Shirts", color |-> "White", price |-> 89],
               [id |-> "prod-chi-men-004", category |-> "Sneakers", color |-> "Black", price |-> 149],
               [id |-> "prod-chi-men-005", category |-> "Blazers", color |-> "Black", price |-> 279],
               [id |-> "prod-chi-men-006", category |-> "Polos", color |-> "Navy", price |-> 69] >>,
          women |->
            << [id |-> "prod-chi-wom-001", category |-> "Blazers", color |-> "Navy", price |-> 319],
               [id |-> "prod-chi-wom-002", category |-> "Trousers", color |-> "Gray", price |-> 129],
               [id |-> "prod-chi-wom-003", category |-> "Blouses", color |-> "White", price |-> 79],
               [id |-> "prod-chi-wom-004", category |-> "Sneakers", color |-> "Black", price |-> 139],
               [id |-> "prod-chi-wom-005", category |-> "Clutches", color |-> "Brown", price |-> 229],
               [id |-> "prod-chi-wom-006", category |-> "Blazers", color |-> "Black", price |-> 269] >>,
          unisex |->
            << [id |-> "prod-chi-uni-001", category |-> "Jackets", color |-> "Navy", price |-> 299],
               [id |-> "prod-chi-uni-002", category |-> "Trousers", color |-> "Gray", price |-> 119],
               [id |-> "prod-chi-uni-003", category |-> "Hoodies", color |-> "Black", price |-> 89],
               [id |-> "prod-chi-uni-004", category |-> "Sneakers", color |-> "Black", price |-> 139],
               [id |-> "prod-chi-uni-005", category |-> "Backpacks", color |-> "Brown", price |-> 239],
               [id |-> "prod-chi-uni-006", category |-> "Beanies", color |-> "Black", price |-> 29] >>]],
       [id |-> "campus",
        colors |-> <<"Blue", "Black", "Gray", "White", "Navy">>,
        priceRange |-> [min |-> 29, max |-> 180],
        heroProducts |->
         [men |->
            << [id |-> "prod-cmp-men-001", category |-> "Tees", color |-> "Blue", price |-> 29],
               [id |-> "prod-cmp-men-002", category |-> "Jeans", color |-> "Blue", price |-> 79],
               [id |-> "prod-cmp-men-003", category |-> "Sneakers", color |-> "White", price |-> 89],
               [id |-> "prod-cmp-men-004", category |-> "Tees", color |-> "Gray", price |-> 24],
               [id |-> "prod-cmp-men-005", category |-> "Sneakers", color |-> "Black", price |-> 79],
               [id |-> "prod-cmp-men-006", category |-> "Polos", color |-> "Navy", price |-> 49] >>,
          women |->
            << [id |-> "prod-cmp-wom-001", category |-> "Tees", color |-> "Blue", price |-> 29],
               [id |-> "prod-cmp-wom-002", category |-> "Trousers", color |-> "Navy", price |-> 69],
               [id |-> "prod-cmp-wom-003", category |-> "Sneakers", color |-> "White", price |-> 89],
               [id |-> "prod-cmp-wom-004", category |-> "Clutches", color |-> "Black", price |-> 59],
               [id |-> "prod-cmp-wom-005", category |-> "Tees", color |-> "Gray", price |-> 24],
               [id |-> "prod-cmp-wom-006", category |-> "Flats", color |-> "Black", price |-> 49] >>,
          unisex |->
            << [id |-> "prod-cmp-uni-001", category |-> "Tees", color |-> "Blue", price |-> 29],
               [id |-> "prod-cmp-uni-002", category |-> "Hoodies", color |-> "Gray", price |-> 69],
               [id |-> "prod-cmp-uni-003", category |-> "Sneakers", color |-> "White", price |-> 89],
               [id |-> "prod-cmp-uni-004", category |-> "Backpacks", color |-> "Black", price |-> 59],
               [id |-> "prod-cmp-uni-005", category |-> "Tees", color |-> "Black", price |-> 24],
               [id |-> "prod-cmp-uni-006", category |-> "Beanies", color |-> "Navy", price |-> 19] >>]] >>

BRANDS ==
    <<"StyleCraft", "UrbanEdge", "ClassicWear", "ModernFit", "EliteFashion", "TrendSet",
      "PremiumStyle", "FashionHub", "DesignerWear", "LuxuryBrand">>

STYLES ==
    <<"Minimalist", "Vintage", "Contemporary", "Bohemian", "Classic", "Streetwear",
      "Elegant", "Sporty", "Casual", "Formal">>

getScenarioPrefix(scenarioId) ==
    CASE scenarioId = "nyc_dinner" -> "nyc"
      [] scenarioId = "summer_wedding" -> "wed"
      [] scenarioId = "biz_travel" -> "trv"
      [] scenarioId = "chi_winter" -> "chi"
      [] scenarioId = "campus" -> "cmp"
      [] OTHER -> SubSeq(scenarioId, 1, Min2(3, Len(scenarioId)))

\* String(n).padStart(3, "0")
PadStart3(n) ==
    LET digits == ToString(n)
    IN IF Len(digits) >= 3 THEN digits
       ELSE IF Len(digits) = 2 THEN "0" \o digits ELSE "00" \o digits

\* the element of a list at a 0-based index taken modulo the length
Cycle(list, index) == list[(index % Len(list)) + 1]

generateProductForScenario(scenario, audience, index, isHero) ==
    LET audiencePrefix == IF audience = "men" THEN "men"
                          ELSE IF audience = "women" THEN "wom" ELSE "uni"
        indexId == "prod-" \o getScenarioPrefix(scenario.id) \o "-" \o audiencePrefix
                       \o "-" \o PadStart3(index + 1)
        found == IF isHero
                 THEN SelectSeq(scenario.heroProducts[audience], LAMBDA h : h.id = indexId)
                 ELSE <<>>
        categories == AUDIENCE_CATEGORIES[audience]
        category == IF found # <<>> THEN found[1].category ELSE Cycle(categories, index)
        notTops == SelectSeq(categories, LAMBDA c : c # "Tops")
    IN [id |-> IF found # <<>> THEN found[1].id ELSE indexId,
        brand |-> Cycle(BRANDS, index),
        price |-> IF found # <<>> THEN found[1].price
                  ELSE scenario.priceRange.min
                       + ((index * 17) % (scenario.priceRange.max - scenario.priceRange.min + 1)),
        category |-> IF audience = "men" /\ category = "Tops"
                     THEN (IF notTops # <<>> THEN notTops[1] ELSE categories[1])
                     ELSE category,
        color |-> IF found # <<>> THEN found[1].color ELSE Cycle(scenario.colors, index),
        style |-> Cycle(STYLES, index),
        scenarioId |-> scenario.id,
        audience |-> audience]

\* the hero products of one audience of one scenario
HeroCount == 6

\* the products of one audience of one scenario
PerAudience == 60

\* scenario.deliveryDays of SCENARIOS
ScenarioDeliveryDays ==
    [nyc_dinner |-> [min |-> 1, max |-> 2],
     summer_wedding |-> [min |-> 2, max |-> 5],
     biz_travel |-> [min |-> 1, max |-> 3],
     chi_winter |-> [min |-> 2, max |-> 4],
     campus |-> [min |-> 3, max |-> 7]]

\* the results of Math.random() the model draws, in hundredths: one below
\* the stock threshold 0.1 and one near 1
RandomDraws == {5, 95}

\* the three Math.random() results of one generateProductForScenario call
RandomTriples == [stock : RandomDraws, count : RandomDraws, delivery : RandomDraws]

\* the stock and delivery fields of a generated product
StockAndDelivery(scenario, random) ==
    LET inStock == random.stock > 10
        days == ScenarioDeliveryDays[scenario.id]
    IN [inStock |-> inStock,
        stockCount |-> IF inStock THEN ((random.count * 50) \div 100) + 5 ELSE 0,
        deliveryDays |-> days.min + ((random.delivery * (days.max - days.min + 1)) \div 100)]

\* the record generateProductForScenario returns, stock and delivery included
GeneratedProduct(scenario, audience, index, isHero, random) ==
    generateProductForScenario(scenario, audience, index, isHero)
        @@ StockAndDelivery(scenario, random)

\* the products of generateCatalog() the cache model keeps: the first ones of
\* the first scenario and audience
GeneratedProducts == 1

\* the lists generateCatalog() can return, one for each outcome of Math.random()
GeneratedCatalogs ==
    {[n \in 1..GeneratedProducts |->
         GeneratedProduct(SCENARIOS[1], "men", n - 1, n - 1 < HeroCount, draws[n])] :
        draws \in [1..GeneratedProducts -> RandomTriples]}

-----------------------------------------------------------------------------
(* loadCatalog and clearCatalogCache (src/lib/catalog.ts as of the         *)
(* scenario catalog)                                                       *)

\* one minute in milliseconds
Minute == 60 * 1000

CACHE_TTL == 5 * 60 * 1000

\* catalogCache is null
NoSnapshot == [none |-> TRUE]

\* catalogCache holds a product list
Snapshot(products) == [products |-> products]

\* there is no data/catalog.json
NoFile == [none |-> TRUE]

\* JSON.stringify(products, null, 2): the text keeps the list it was written from
JSONstringify(products) == [json |-> products]

\* a text of data/catalog.json that JSON.parse rejects
CorruptText == [corrupt |-> TRUE]

\* JSON.parse(fileContent) throws
ParseThrows(fileContent) == fileContent = CorruptText

\* JSON.parse(fileContent)
JSONparse(fileContent) == fileContent.json

\* catalogCache && Date.now() - catalogCacheTime <= CACHE_TTL
CacheValidInclusive(cache, cacheTime, now) ==
    cache # NoSnapshot /\ now - cacheTime <= CACHE_TTL

\* catalogCache && Date.now() - catalogCacheTime < CACHE_TTL
CacheValid(cache, cacheTime, now) == cache # NoSnapshot /\ now - cacheTime < CACHE_TTL

\* what one loadCatalog() call returns and leaves behind; generated is the
\* list generateCatalog() returns if it is called
loadCatalog(cache, cacheTime, now, file, generated) ==
    IF CacheValid(cache, cacheTime, now)
    THEN [products |-> cache.products, path |-> "cache",
          catalogCache |-> cache, catalogCacheTime |-> cacheTime, file |-> file]
    ELSE IF file = NoFile
    THEN [products |-> generated, path |-> "generated",
          catalogCache |-> Snapshot(generated), catalogCacheTime |-> now,
          file |-> JSONstringify(generated)]
    ELSE IF ~ParseThrows(file)
    THEN [products |-> JSONparse(file), path |-> "read",
          catalogCache |-> Snapshot(JSONparse(file)), catalogCacheTime |-> now,
          file |-> file]
    ELSE [products |-> generated, path |-> "regenerated",
          catalogCache |-> Snapshot(generated), catalogCacheTime |-> now,
          file |-> JSONstringify(generated)]

-----------------------------------------------------------------------------
(* The state machine *)

\* the clock starts past the first CACHE_TTL milliseconds of 1970
StartTime == 2 * CACHE_TTL

\* the minutes the clock advances
MaxMinutes == 7

\* the loadCatalog() calls of one run
MaxCalls == 4

\* the largest catalog drawn from the universe
MaxCatalog == 5

\* the catalogs: the runs of at most MaxCatalog consecutive products of the universe
Catalogs ==
    {SubSeq(Universe, w[1], w[1] + w[2] - 1) :
        w \in {v \in (1..Len(Universe)) \X (0..MaxCatalog) : v[1] + v[2] - 1 <= Len(Universe)}}

SearchQueries ==
    {"white shirts", "shirts under 100", "shirts under 0", "exclude black sneakers",
     "navy", "shoes", "shirts", "no logo no black", "blak under 400",
     "blak"}

SearchLimits == {1, 24}

CartQueries == {Null, "", "smart dinner", "smart casual dinner", "bold"}

CartAudiences == {Null, "men", "women"}

CartScenarios == {Null, "nyc_dinner"}

CartAnchors == {Null, "prod-nyc-men-005", "prod-nyc-men-006", "prod-nyc-men-007"}

\* a second wardrobe of nyc_dinner products at near-uniform prices, for the
\* builds that complete a look
Wardrobe ==
    << MakeProduct("prod-nyc-wom-011", "nyc_dinner", "women", "Dresses", "Navy", 100, "PremiumStyle", "Elegant", 1),
       MakeProduct("prod-nyc-wom-012", "nyc_dinner", "women", "Heels", "Black", 100, "FashionHub", "Classic", 2),
       MakeProduct("prod-nyc-wom-013", "nyc_dinner", "women", "Clutches", "Black", 100, "DesignerWear", "Elegant", 1),
       MakeProduct("prod-nyc-wom-014", "nyc_dinner", "women", "Trousers", "Gray", 100, "UrbanEdge", "Classic", 2),
       MakeProduct("prod-nyc-wom-015", "nyc_dinner", "women", "Sneakers", "White", 104, "TrendSet", "Sporty", 1),
       MakeProduct("prod-nyc-men-015", "nyc_dinner", "men", "Loafers", "Brown", 109, "ClassicWear", "Classic", 1),
       MakeProduct("prod-nyc-men-014", "nyc_dinner", "men", "Blazers", "Navy", 100, "ModernFit", "Elegant", 2),
       MakeProduct("prod-nyc-men-013", "nyc_dinner", "men", "Sneakers", "White", 100, "TrendSet", "Sporty", 1),
       MakeProduct("prod-nyc-men-012", "nyc_dinner", "men", "Chinos", "Gray", 100, "UrbanEdge", "Minimalist", 2),
       MakeProduct("prod-nyc-men-011", "nyc_dinner", "men", "Shirts", "White", 100, "StyleCraft", "Classic", 1) >>

\* the largest catalog drawn from the wardrobe
MaxLook == 5

\* the runs of at most MaxLook consecutive products of the wardrobe
LookCatalogs ==
    {SubSeq(Wardrobe, w[1], w[1] + w[2] - 1) :
        w \in {v \in (1..Len(Wardrobe)) \X (0..MaxLook) : v[1] + v[2] - 1 <= Len(Wardrobe)}}

LookQueries == {"bold"}

\* no anchor, an anchor outside the first women's template, and two footwear anchors
LookAnchors == {Null, "prod-nyc-wom-014", "prod-nyc-wom-015", "prod-nyc-men-013"}

\* the bodies of the search requests: query absent, empty or given
RouteQueries == {Null, "", "shirts", "black sneakers for men", "dinner"}

\* the replies of the openai provider to the search route
RouteReplies == {"fallback", "padded"}

\* the queries of the sessions
SessionQueries == {"shirts", "black", "shoes"}

\* the answers to the audience question
Answers == {"Women", "men", "unisex"}

\* the follow-ups
FollowUps == {"cheapest first", "exclude pink"}

\* constraintsOverride: absent, or the constraints of an earlier response to
\* the follow-up "under 100"
Overrides ==
    {NoConstraints,
     [budgetMax |-> 100, category |-> Null, color |-> Null, colorExclude |-> Null,
      occasion |-> Null, style |-> Null]}

\* the deltas generateConstraintDelta may yield for the request; a request
\* that is no follow-up asks for none
RequestDeltas(req) == IF IsFollowUp(req) THEN Deltas(req.followUp) ELSE {EmptyObject}

\* the module state of src/lib/catalog.ts when the process starts
CacheAtStart ==
    /\ catalogCache = NoSnapshot
    /\ catalogCacheTime = 0
    /\ clock = StartTime
    /\ loadOut = NoResult

Idle == searchCall = NoCall /\ cartReq = NoCall /\ searchReq = NoCall

Init ==
    /\ catalog \in Catalogs
    /\ searchCall = NoCall
    /\ searchOut = NoResult
    /\ cartReq = NoCall
    /\ cartResp = NoResult
    /\ searchReq = NoCall
    /\ searchResp = NoResult
    /\ CacheAtStart
    /\ catalogFile = NoFile

SortOrders == {"relevance", "price_asc", "price_desc"}

\* a caller invokes searchProducts(products, query, limit, audience, sortBy) on the catalog
SearchCall ==
    /\ Idle
    /\ \E query \in SearchQueries, limit \in SearchLimits, audience \in Audiences \cup {Null},
          sortBy \in SortOrders :
          searchCall' = [products |-> catalog, query |-> query, limit |-> limit,
                         audience |-> audience, sortBy |-> sortBy]
    /\ searchOut' = NoResult
    /\ UNCHANGED <<catalog, cartReq, cartResp, searchReq, searchResp, cacheVars>>

\* searchProducts runs to completion
SearchProducts ==
    /\ searchCall # NoCall
    /\ searchOut = NoResult
    /\ searchOut' = [results |-> searchProducts(searchCall.products, searchCall.query,
                                                searchCall.limit, searchCall.audience,
                                                searchCall.sortBy)]
    /\ UNCHANGED <<catalog, searchCall, cartReq, cartResp, searchReq, searchResp, cacheVars>>

\* the caller takes the result
SearchReturn ==
    /\ searchCall # NoCall
    /\ searchOut # NoResult
    /\ searchCall' = NoCall
    /\ searchOut' = NoResult
    /\ UNCHANGED <<catalog, cartReq, cartResp, searchReq, searchResp, cacheVars>>

\* a client posts a bundle request
CartRequest ==
    /\ Idle
    /\ \E query \in CartQueries, audience \in CartAudiences, scenarioId \in CartScenarios,
          anchorProductId \in CartAnchors :
          cartReq' = [query |-> query, audience |-> audience, scenarioId |-> scenarioId,
                      allowUnisexMix |-> FALSE, anchorProductId |-> anchorProductId]
    /\ cartResp' = NoResult
    /\ UNCHANGED <<catalog, searchCall, searchOut, searchReq, searchResp, cacheVars>>

\* the POST handler runs to completion
POST ==
    /\ cartReq # NoCall
    /\ cartResp = NoResult
    /\ cartResp' \in LET outcome == CartOutcome(catalog, cartReq)
                     IN {CartResponse(outcome, reply) : reply \in ReasonReplies}
    /\ UNCHANGED <<catalog, searchCall, searchOut, cartReq, searchReq, searchResp, cacheVars>>

\* the response is delivered
CartRespond ==
    /\ cartReq # NoCall
    /\ cartResp # NoResult
    /\ cartReq' = NoCall
    /\ cartResp' = NoResult
    /\ UNCHANGED <<catalog, searchCall, searchOut, searchReq, searchResp, cacheVars>>

\* the process serves a catalog of the wardrobe
InitLooks ==
    /\ catalog \in LookCatalogs
    /\ searchCall = NoCall
    /\ searchOut = NoResult
    /\ cartReq = NoCall
    /\ cartResp = NoResult
    /\ searchReq = NoCall
    /\ searchResp = NoResult
    /\ CacheAtStart
    /\ catalogFile = NoFile

\* a client asks for bundles, with or without a product to complete
LookRequest ==
    /\ Idle
    /\ \E query \in LookQueries, audience \in CartAudiences, scenarioId \in CartScenarios,
          anchorProductId \in LookAnchors :
          cartReq' = [query |-> query, audience |-> audience, scenarioId |-> scenarioId,
                      allowUnisexMix |-> FALSE, anchorProductId |-> anchorProductId]
    /\ cartResp' = NoResult
    /\ UNCHANGED <<catalog, searchCall, searchOut, searchReq, searchResp, cacheVars>>

\* a client posts a search request
SearchRequest ==
    /\ Idle
    /\ \E query \in RouteQueries, audience \in CartAudiences :
          searchReq' = [query |-> query, audience |-> audience, userAnswer |-> Null,
                        session |-> NoSession, followUp |-> Null,
                        constraintsOverride |-> NoConstraints]
    /\ searchResp' = NoResult
    /\ UNCHANGED <<catalog, searchCall, searchOut, cartReq, cartResp, cacheVars>>

\* a client answers the audience question, with the session of the response
\* that asked it
AnswerRequest ==
    /\ Idle
    /\ \E query \in SessionQueries, userAnswer \in Answers :
          searchReq' = [query |-> query, audience |-> Null, userAnswer |-> userAnswer,
                        session |-> [originalQuery |-> query, asked |-> FALSE,
                                     audience |-> Null],
                        followUp |-> Null, constraintsOverride |-> NoConstraints]
    /\ searchResp' = NoResult
    /\ UNCHANGED <<catalog, searchCall, searchOut, cartReq, cartResp, cacheVars>>

\* a client refines a search, with the session of a response that knew the
\* audience and, possibly, the constraints of that response
FollowUpRequest ==
    /\ Idle
    /\ \E query \in SessionQueries, followUp \in FollowUps,
          constraintsOverride \in Overrides :
          searchReq' = [query |-> query, audience |-> Null, userAnswer |-> Null,
                        session |-> [originalQuery |-> query, asked |-> TRUE,
                                     audience |-> "men"],
                        followUp |-> followUp, constraintsOverride |-> constraintsOverride]
    /\ searchResp' = NoResult
    /\ UNCHANGED <<catalog, searchCall, searchOut, cartReq, cartResp, cacheVars>>

\* the POST handler of the search route runs to completion
SearchPOST ==
    /\ searchReq # NoCall
    /\ searchResp = NoResult
    /\ \E brief \in Briefs, reply \in RouteReplies, delta \in RequestDeltas(searchReq) :
          searchResp' = SearchReply(catalog, searchReq, brief, reply, delta)
    /\ UNCHANGED <<catalog, searchCall, searchOut, cartReq, cartResp, searchReq, cacheVars>>

\* the response is delivered
SearchRespond ==
    /\ searchReq # NoCall
    /\ searchResp # NoResult
    /\ searchReq' = NoCall
    /\ searchResp' = NoResult
    /\ UNCHANGED <<catalog, searchCall, searchOut, cartReq, cartResp, cacheVars>>

\* generateCatalog starts with an empty product list
InitCatalog ==
    /\ catalog = <<>>
    /\ searchCall = NoCall
    /\ searchOut = NoResult
    /\ cartReq = NoCall
    /\ cartResp = NoResult
    /\ searchReq = NoCall
    /\ searchResp = NoResult
    /\ CacheAtStart
    /\ catalogFile = NoFile

\* one products.push of generateCatalog: the scenarios in turn, for each the
\* audiences men, women, unisex, for each the hero products 0..5 (every
\* audience of every scenario has six) and the indexes 6..59
GenerateCatalog ==
    /\ Len(catalog) < Len(SCENARIOS) * 3 * PerAudience
    /\ LET scenario == SCENARIOS[(Len(catalog) \div (3 * PerAudience)) + 1]
           audience == <<"men", "women", "unisex">>[((Len(catalog) % (3 * PerAudience)) \div PerAudience) + 1]
           i == Len(catalog) % PerAudience
       IN catalog' = Append(catalog,
                            generateProductForScenario(scenario, audience, i, i < HeroCount))
    /\ UNCHANGED <<searchCall, searchOut, cartReq, cartResp, searchReq, searchResp, cacheVars>>

\* the process starts with or without a data/catalog.json
InitCache ==
    /\ catalog = <<>>
    /\ searchCall = NoCall
    /\ searchOut = NoResult
    /\ cartReq = NoCall
    /\ cartResp = NoResult
    /\ searchReq = NoCall
    /\ searchResp = NoResult
    /\ CacheAtStart
    /\ catalogFile \in {NoFile} \cup {JSONstringify(g) : g \in GeneratedCatalogs}

\* the number of loadCatalog() calls so far
Calls(out) == IF out = NoResult THEN 0 ELSE out.calls

\* one call of loadCatalog()
LoadCatalog ==
    /\ Calls(loadOut) < MaxCalls
    /\ \E generated \in GeneratedCatalogs :
          LET out == loadCatalog(catalogCache, catalogCacheTime, clock, catalogFile, generated)
          IN /\ catalogCache' = out.catalogCache
             /\ catalogCacheTime' = out.catalogCacheTime
             /\ catalogFile' = out.file
             /\ loadOut' = [calls |-> Calls(loadOut) + 1, products |-> out.products,
                            path |-> out.path]
    /\ UNCHANGED <<catalog, searchCall, searchOut, cartReq, cartResp, searchReq, searchResp,
                   clock>>

\* one call of clearCatalogCache()
ClearCatalogCache ==
    /\ catalogCache' = NoSnapshot
    /\ catalogCacheTime' = 0
    /\ UNCHANGED <<catalog, searchCall, searchOut, cartReq, cartResp, searchReq, searchResp,
                   clock, catalogFile, loadOut>>

\* a minute passes
Tick ==
    /\ clock < StartTime + MaxMinutes * Minute
    /\ clock' = clock + Minute
    /\ UNCHANGED <<catalog, searchCall, searchOut, cartReq, cartResp, searchReq, searchResp,
                   catalogCache, catalogCacheTime, catalogFile, loadOut>>

\* data/catalog.json is deleted
FileLost ==
    /\ catalogFile # NoFile
    /\ catalogFile' = NoFile
    /\ UNCHANGED <<catalog, searchCall, searchOut, cartReq, cartResp, searchReq, searchResp,
                   catalogCache, catalogCacheTime, clock, loadOut>>

\* data/catalog.json is damaged
FileDamaged ==
    /\ catalogFile \notin {NoFile, CorruptText}
    /\ catalogFile' = CorruptText
    /\ UNCHANGED <<catalog, searchCall, searchOut, cartReq, cartResp, searchReq, searchResp,
                   catalogCache, catalogCacheTime, clock, loadOut>>

NextCache == LoadCatalog \/ ClearCatalogCache \/ Tick \/ FileLost \/ FileDamaged

NextSearch == SearchCall \/ SearchProducts \/ SearchReturn

NextSearchRoute == SearchRequest \/ SearchPOST \/ SearchRespond

NextCart == CartRequest \/ POST \/ CartRespond

NextLooks == LookRequest \/ POST \/ CartRespond

\* the search route with sessions
NextSession == AnswerRequest \/ FollowUpRequest \/ SearchPOST \/ SearchRespond

Next == NextSearch \/ NextCart \/ NextLooks \/ NextSearchRoute \/ NextSession \/ NextCache

Spec == Init /\ [][Next]_vars

SpecSearch == Init /\ [][NextSearch]_vars

SpecCart == Init /\ [][NextCart]_vars

\* the two routes
NextRoutes == NextCart \/ NextSearchRoute

SpecRoutes == Init /\ [][NextRoutes]_vars

SpecSession == Init /\ [][NextSession]_vars

\* the catalog generation
SpecCatalog == InitCatalog /\ [][GenerateCatalog]_vars

\* the bundle route over the wardrobe
SpecLooks == InitLooks /\ [][NextLooks]_vars

\* the catalog cache
SpecCache == InitCache /\ [][NextCache]_vars

-----------------------------------------------------------------------------
(* Properties of POST /api/cart/build *)

\* a bundle build has answered 200
Built == cartReq # NoCall /\ cartResp # NoResult /\ cartResp.status = 200

\* the three returned bundles
Bundles == cartResp.carts

\* the catalog product behind a bundle item
ProductOf(item) == FindById(catalog, item.id)[1]

ItemPrices(bundle) == [n \in DOMAIN bundle.items |-> bundle.items[n].price]

\* the request names an anchor that is in the catalog under the requested
\* scenarioId and audience
AnchorInScope ==
    /\ Truthy(cartReq.anchorProductId)
    /\ \E n \in DOMAIN catalog :
          /\ catalog[n].id = cartReq.anchorProductId
          /\ (Truthy(cartReq.scenarioId) => catalog[n].scenarioId = cartReq.scenarioId)
          /\ (Truthy(cartReq.audience) => catalog[n].audience = cartReq.audience)

\* the query asks for a smart evening look and is neither casual nor relaxed
SmartEveningQuery ==
    LET q == toLowerCase(cartReq.query)
    IN /\ Includes(q, "smart")
       /\ Includes(q, "evening") \/ Includes(q, "dinner") \/ Includes(q, "party")
       /\ ~Includes(q, "casual") /\ ~Includes(q, "relaxed")

\* the query holds none of the pink-adjacent keywords
NoPinkKeyword ==
    \A kw \in {"pink", "magenta", "pastel", "bold", "pop color"} :
        ~Includes(toLowerCase(cartReq.query), kw)

\* C1: every successful bundle build returns exactly the three bundles Budget,
\* Balanced and Premium, each with exactly 3 items
C1_ThreeBundlesOfThreeItems ==
    Built =>
        /\ [n \in DOMAIN Bundles |-> Bundles[n].name] = <<"Budget", "Balanced", "Premium">>
        /\ \A n \in DOMAIN Bundles : Len(Bundles[n].items) = 3

\* C2: an anchor that exists under the requested scenarioId and audience is an
\* item of every one of the three returned bundles
C2_AnchorInEveryBundle ==
    (Built /\ AnchorInScope) =>
        \A n \in DOMAIN Bundles : cartReq.anchorProductId \in BundleIds(Bundles[n].items)

\* C3: within every returned bundle no two items carry the same role, and every
\* role is a template role or a role of the generic classifier
C3_RolesUnique ==
    Built =>
        \A n \in DOMAIN Bundles :
            /\ \A i, j \in DOMAIN Bundles[n].items :
                   i # j => Bundles[n].items[i].role # Bundles[n].items[j].role
            /\ \A i \in DOMAIN Bundles[n].items :
                   Bundles[n].items[i].role \in Range(rolePriority) \cup {"item"}

\* C4: a build for a smart evening query that is neither casual nor relaxed
\* returns no Tees or T-Shirts item, whatever the audience parameter
C4_NoTeesForSmartEvening ==
    (Built /\ SmartEveningQuery) =>
        \A n \in DOMAIN Bundles : \A i \in DOMAIN Bundles[n].items :
            Bundles[n].items[i].category \notin {"Tees", "T-Shirts"}

\* C5: a build for men whose query holds no pink-adjacent keyword returns no
\* Pink item, the anchor included
C5_NoPinkForMen ==
    (Built /\ cartReq.audience = "men" /\ NoPinkKeyword) =>
        \A n \in DOMAIN Bundles : \A i \in DOMAIN Bundles[n].items :
            Bundles[n].items[i].color # "Pink"

\* a men's build without pink keyword whose anchor is a Pink product of the
\* requested scenario and audience succeeds
C5_Witness ==
    /\ Built /\ cartReq.audience = "men" /\ NoPinkKeyword /\ AnchorInScope
    /\ \E n \in DOMAIN catalog :
          catalog[n].id = cartReq.anchorProductId /\ catalog[n].color = "Pink"

\* C6: with a scenarioId and an audience requested, every item of every bundle
\* is a product of that scenarioId and that audience, the anchor included
C6_ItemsInScope ==
    (Built /\ Truthy(cartReq.scenarioId) /\ Truthy(cartReq.audience)) =>
        \A n \in DOMAIN Bundles : \A i \in DOMAIN Bundles[n].items :
            /\ ProductOf(Bundles[n].items[i]).scenarioId = cartReq.scenarioId
            /\ ProductOf(Bundles[n].items[i]).audience = cartReq.audience

\* a scoped build with an in-scope anchor succeeds over a catalog that also
\* holds products of another scenario and of another audience
C6_Witness ==
    /\ Built /\ Truthy(cartReq.scenarioId) /\ Truthy(cartReq.audience) /\ AnchorInScope
    /\ \E n \in DOMAIN catalog : catalog[n].scenarioId # cartReq.scenarioId
    /\ Bundles[1].items[1].id = cartReq.anchorProductId

\* the pool of the build is tiered by the price quantiles
QuantileTiering ==
    LET prices == SortedPrices(cartResp.pool)
    IN prices[Len(prices)] - prices[1] >= DegenerateRange

\* C10: under quantile tiering the average item price of the Budget bundle is
\* at most the average item price of the Premium bundle
C10_TierSeparation ==
    (Built /\ QuantileTiering) =>
        SumSeq(ItemPrices(Bundles[1])) * Len(Bundles[3].items)
            <= SumSeq(ItemPrices(Bundles[3])) * Len(Bundles[1].items)

\* a quantile-tiered build whose Budget and Premium bundles both hold the
\* anchor and have different numbers of items
C10_Witness ==
    /\ Built /\ QuantileTiering /\ AnchorInScope
    /\ cartReq.anchorProductId \in BundleIds(Bundles[1].items)
    /\ cartReq.anchorProductId \in BundleIds(Bundles[3].items)
    /\ Len(Bundles[1].items) # Len(Bundles[3].items)

\* the build kept its anchor through the hard filter
AnchorInPool == Truthy(cartReq.anchorProductId) /\ AnchorIn(cartResp.pool, cartReq.anchorProductId) # <<>>

\* prices the anchor could have instead of its own
AnchorPrices == {50, 150, 300}

\* the pool with the price of one product changed
Reprice(products, id, price) ==
    [n \in DOMAIN products |->
        IF products[n].id = id THEN [products[n] EXCEPT !.price = price] ELSE products[n]]

\* C11: the tier boundaries buildCarts computes over the pool are the same as
\* over the pool that differs only in the price of the anchor
C11_AnchorPriceIrrelevant ==
    (Built /\ AnchorInPool) =>
        \A price \in AnchorPrices :
            PriceTiers(Reprice(cartResp.pool, cartReq.anchorProductId, price))
                = PriceTiers(cartResp.pool)

\* the templates of the requested scenarioId and audience
RequestTemplates == TemplatesFor(cartReq.scenarioId, cartReq.audience)

\* every role of the template has an item of an acceptable category in the bundle
Satisfies(bundle, template) ==
    \A k \in DOMAIN template :
        \E i \in DOMAIN bundle.items : bundle.items[i].category \in Range(template[k].cats)

\* C12: a build without anchor for a scenarioId and audience that have role
\* templates returns only bundles that satisfy one of these templates
C12_BundlesMatchTemplate ==
    (Built /\ ~Truthy(cartReq.anchorProductId) /\ RequestTemplates # <<>>) =>
        \A n \in DOMAIN Bundles :
            \E t \in DOMAIN RequestTemplates : Satisfies(Bundles[n], RequestTemplates[t])

\* buildCarts threw: fewer than 3 products after its hard filter, or a tier
\* without items
BuildFailed == cartReq # NoCall /\ cartResp # NoResult /\ cartResp.status = 500

\* C13: a build that fails inside buildCarts is answered with an error that
\* carries the diagnostic message of the failure
C13_FailureIsDiagnosed == BuildFailed => Includes(cartResp.error, cartResp.thrown)

\* what buildCarts handed to generateCartNotes, in the order budget, balanced, premium
BuiltItems == <<cartResp.built.budget, cartResp.built.balanced, cartResp.built.premium>>

\* the reason lists the collaborator returned for the items of the bundles
ReturnedReasons == Reasons(cartResp.reply, BuiltItems[1] \o BuiltItems[2] \o BuiltItems[3])

\* the place of item i of bundle n in the concatenation of the bundles
ReasonIdx(n, i) == (IF n > 1 THEN Len(BuiltItems[1]) ELSE 0)
                   + (IF n > 2 THEN Len(BuiltItems[2]) ELSE 0) + i

\* C18: whatever the reasons collaborator yields, the response has the three
\* bundles with the items, roles and order of buildCarts, and every item has a
\* non-empty why: the first reason of the collaborator for the item, else
\* "Perfect <role> for this look"
C18_DegradedReasons ==
    Built =>
        /\ Len(Bundles) = 3
        /\ \A n \in 1..3 :
              /\ Len(Bundles[n].items) = Len(BuiltItems[n])
              /\ \A i \in DOMAIN Bundles[n].items :
                    LET item == Bundles[n].items[i]
                        k == ReasonIdx(n, i)
                    IN /\ [item EXCEPT !.why = ""] = BuiltItems[n][i]
                       /\ item.why # ""
                       /\ item.why = IF k <= Len(ReturnedReasons) /\ ReturnedReasons[k][1] # ""
                                     THEN ReturnedReasons[k][1]
                                     ELSE "Perfect " \o item.role \o " for this look"

\* three bundles with items were built and the collaborator gave no usable
\* reason for some item
C18_Witness ==
    /\ Built
    /\ cartResp.reply \in {"short", "blank"}
    /\ \A n \in 1..3 : Len(Bundles[n].items) > 0

\* the collaborator gave one reason list and the provider padded the others
C18_PaddedWitness ==
    /\ Built
    /\ cartResp.reply = "padded"
    /\ Bundles[1].items[1].why = "Fits the request"
    /\ Len(Bundles[3].items) > 0
    /\ Bundles[3].items[1].why = "Matches your search"

\* a request of either route whose query is missing or empty has been answered
MissingQueryAnswered(req, resp) == req # NoCall /\ resp # NoResult /\ req.query \in {Null, ""}

\* the early return of POST that precedes loadCatalog
Rejected(resp) == resp.status = 400 /\ resp.error = "Query is required"

\* C19: a search request or a bundle request whose query is missing or empty
\* is answered 400 "Query is required", the return that precedes loadCatalog,
\* the search and the bundle assembly; also when the request names an anchor
C19_MissingQueryRejected ==
    /\ MissingQueryAnswered(searchReq, searchResp) => Rejected(searchResp)
    /\ MissingQueryAnswered(cartReq, cartResp) =>
           /\ Rejected(cartResp)
           /\ cartResp.pool = <<>>

\* a bundle request with an empty query and an anchor of the catalog was answered
C19_Witness ==
    /\ MissingQueryAnswered(cartReq, cartResp)
    /\ cartReq.query = ""
    /\ Truthy(cartReq.anchorProductId)
    /\ FindById(catalog, cartReq.anchorProductId) # <<>>
    /\ Len(catalog) >= 3

\* a search request without a query was answered
C19_SearchWitness ==
    /\ MissingQueryAnswered(searchReq, searchResp)
    /\ searchReq.query = Null
    /\ Len(catalog) >= 3

-----------------------------------------------------------------------------
(* Properties of searchProducts *)

\* a call of searchProducts has returned
Searched == searchCall # NoCall /\ searchOut # NoResult

\* the constraints extractConstraints yields for the call
Extracted == extractConstraints(searchCall.query, searchCall.audience)

Returned == [n \in DOMAIN searchOut.results |-> searchOut.results[n].product]

\* C7: when extractConstraints yields a budget ceiling b, every product
\* returned by searchProducts has price <= b
C7_BudgetSound ==
    (Searched /\ Extracted.budgetMax # NoNumber) =>
        \A n \in DOMAIN Returned : Returned[n].price <= Extracted.budgetMax

\* C8: every returned product has the extracted category, the extracted color,
\* and a color other than the extracted colorExclude, when these were extracted
C8_CategoryColorSound ==
    Searched =>
        \A n \in DOMAIN Returned :
            /\ Extracted.category # Null => Returned[n].category = Extracted.category
            /\ Extracted.color # Null => Returned[n].color = Extracted.color
            /\ Extracted.colorExclude # Null => Returned[n].color # Extracted.colorExclude

\* "exclude black sneakers" over a catalog with Black Sneakers and Sneakers of
\* another colour returns a product
C8_Witness ==
    /\ Searched
    /\ Extracted.category = "Sneakers" /\ Extracted.colorExclude = "Black"
    /\ \E n \in DOMAIN searchCall.products :
          /\ searchCall.products[n].category = "Sneakers"
          /\ searchCall.products[n].color = "Black"
    /\ Len(Returned) > 0

\* C9: a call with an audience in {men, women, unisex} returns only products
\* whose category is in AUDIENCE_CATEGORIES of that audience
C9_AudienceWhitelist ==
    (Searched /\ searchCall.audience \in Audiences) =>
        \A n \in DOMAIN Returned :
            Returned[n].category \in Range(AUDIENCE_CATEGORIES[searchCall.audience])

\* "shoes" for men sets includeKeywords and returns footwear from a catalog that
\* also holds footwear outside the men's categories
C9_Witness ==
    /\ Searched /\ searchCall.audience = "men"
    /\ Len(Extracted.includeKeywords) > 0
    /\ \E n \in DOMAIN searchCall.products : searchCall.products[n].category = "Heels"
    /\ Len(Returned) > 0

\* the query of the call names a pink-adjacent keyword
SearchNamesPink == \E k \in DOMAIN pinkKeywords : Includes(toLowerCase(searchCall.query), pinkKeywords[k])

\* C14: a call for audience men whose query names no pink-adjacent keyword
\* returns no product of color Pink
C14_NoPinkInMenSearch ==
    (Searched /\ searchCall.audience = "men" /\ ~SearchNamesPink) =>
        \A n \in DOMAIN Returned : Returned[n].color # "Pink"

\* the colours named by an exclusion phrase of the query: a word "no", "exclude",
\* "without" or "not" with a colour word next to it
ExcludedColours ==
    LET words == SplitWords(toLowerCase(searchCall.query))
    IN {ColorName(words[n + 1]) :
           n \in {m \in 1..(Len(words) - 1) :
                     /\ words[m] \in {"no", "exclude", "without", "not"}
                     /\ words[m + 1] \in Range(ExtractColors)}}

\* C15: when the query holds an exclusion phrase, extractConstraints sets
\* colorExclude to a colour of such a phrase and leaves color unset
C15_ExclusionWins ==
    (Searched /\ ExcludedColours # {}) =>
        /\ Extracted.colorExclude \in ExcludedColours
        /\ Extracted.color = Null

\* C16: under a price sort, of two returned results whose scores differ by more
\* than 5, the one with the higher score stands first
C16_PriceBreaksNearTiesOnly ==
    (Searched /\ searchCall.sortBy \in {"price_asc", "price_desc"}) =>
        \A m, n \in DOMAIN searchOut.results :
            searchOut.results[m].score - searchOut.results[n].score > 500 => m < n

\* the products of the call that pass preFilter
PreFiltered ==
    {p \in Range(searchCall.products) : preFilter(p, Extracted, searchCall.audience)}

\* C17: for a non-empty query and a limit of at least the catalog size, the
\* products returned are exactly the products that pass preFilter
C17_ReturnsThePreFiltered ==
    (Searched /\ ~IsBlank(searchCall.query) /\ searchCall.limit >= Len(searchCall.products)) =>
        Range(Returned) = PreFiltered

\* a call whose tokens were expanded by synonyms, with a product that fails
\* preFilter and a returned product that no token matched (score 0)
C17_Witness ==
    /\ Searched /\ searchCall.limit >= Len(searchCall.products)
    /\ Len(tokenizeQuery(searchCall.query)) > Len(BaseTokens(searchCall.query))
    /\ \E n \in DOMAIN searchOut.results : searchOut.results[n].score > 0
    /\ PreFiltered # Range(searchCall.products)
    /\ Len(Returned) > 0

\* a returned product that no token matched
C17_ZeroScoreReturned ==
    /\ Searched /\ searchCall.limit >= Len(searchCall.products)
    /\ \E n \in DOMAIN searchOut.results : searchOut.results[n].score = 0

-----------------------------------------------------------------------------
(* Properties of generateCatalog *)

\* C20: every generated product, hero products included, has a category of
\* AUDIENCE_CATEGORIES of its audience, and the product ids are pairwise distinct
C20_CatalogWellFormed ==
    /\ \A n \in DOMAIN catalog :
           catalog[n].category \in Range(AUDIENCE_CATEGORIES[catalog[n].audience])
    /\ Cardinality({catalog[n].id : n \in DOMAIN catalog}) = Len(catalog)

\* the ids alone
C20_IdsDistinct == Cardinality({catalog[n].id : n \in DOMAIN catalog}) = Len(catalog)

-----------------------------------------------------------------------------
(* Properties of loadCatalog *)

\* loadCatalog() called generateCatalog()
Generated(out) == out # NoResult /\ out.path \in {"generated", "regenerated"}

\* C21: catalog generation is deterministic: when loadCatalog() generates the
\* catalog again, after the cache expired or was cleared and the file was
\* lost or damaged, the product records are the same field for field,
\* inStock, stockCount and deliveryDays included
C21_RegenerationIdentical ==
    [][(Generated(loadOut) /\ Generated(loadOut'))
           => loadOut'.products = loadOut.products]_vars

\* a snapshot is held and less than CACHE_TTL has passed since it was stored
Fresh == catalogCache # NoSnapshot /\ clock - catalogCacheTime < 5 * 60 * 1000

\* the step is a call of loadCatalog()
LoadStep == Calls(loadOut') = Calls(loadOut) + 1

C25_ExpiryWitness ==
    /\ loadOut # NoResult
    /\ loadOut.calls = 2
    /\ loadOut.path = "read"
    /\ catalogCacheTime = StartTime + CACHE_TTL
    /\ clock = catalogCacheTime

-----------------------------------------------------------------------------
(* Properties of buildCarts: templates, anchor role, tiers, distinct items *)

Tiers == <<"budget", "balanced", "premium">>

\* the anchor of the build: <<p>>, or <<>> when the pool holds none
PoolAnchor == AnchorIn(cartResp.pool, cartReq.anchorProductId)

\* the products tier n draws from: the pool within the prices of the tier,
\* the anchor left out
PoolOfTier(n) == TierPool(cartResp.pool, PoolAnchor, Tiers[n], PriceTiers(cartResp.pool))

\* the tier pool holds a product whose category is in the list of the role
PoolFills(n, entry) ==
    \E i \in DOMAIN PoolOfTier(n) : PoolOfTier(n)[i].category \in Range(entry.cats)

\* the anchor can stand for the role, by its classification or by its category
AnchorFills(entry) ==
    /\ PoolAnchor # <<>>
    /\ \/ entry.role \in Range(classifyProductRole(PoolAnchor[1]))
       \/ PoolAnchor[1].category \in Range(entry.cats)

\* every role of the template can be filled, by the anchor or from the tier pool
Fillable(n, template) ==
    \A k \in DOMAIN template : AnchorFills(template[k]) \/ PoolFills(n, template[k])

\* the items are one per role of the template, each the anchor or of a
\* category of its role
FollowsTemplate(items, template) ==
    /\ Len(items) = Len(template)
    /\ BundleRoles(items) = Range(TemplateRoles(template))
    /\ \A i \in DOMAIN items :
           \/ items[i].id = cartReq.anchorProductId
           \/ \E k \in DOMAIN template : /\ template[k].role = items[i].role
                                         /\ items[i].category \in Range(template[k].cats)

\* what the fallback classifier builds for tier n
FallbackOf(n) ==
    buildFallbackBundle(cartResp.pool, Tiers[n], cartReq.query, PriceTiers(cartResp.pool),
                        cartReq.anchorProductId)

\* the least element of a non-empty set of numbers
Least(S) == CHOOSE k \in S : \A j \in S : k <= j

\* C22: for each tier the returned bundle is built from the first template,
\* in list order, all of whose roles can be filled by the anchor or by a
\* product of the tier pool; the fallback classifier is used only when no
\* template can be filled or none exists
C22_FirstFillableTemplate ==
    Built =>
        \A n \in DOMAIN Tiers :
            LET fillable == {k \in DOMAIN RequestTemplates : Fillable(n, RequestTemplates[k])}
            IN IF fillable # {}
               THEN FollowsTemplate(BuiltItems[n], RequestTemplates[Least(fillable)])
               ELSE BuiltItems[n] = FallbackOf(n)

\* the role of the template the anchor takes: the first of its classifier
\* roles the template has, else the first role whose list holds its category,
\* else none
AnchorTakes(template) ==
    LET cands == classifyProductRole(PoolAnchor[1])
        direct == {c \in DOMAIN cands : cands[c] \in Range(TemplateRoles(template))}
        byCategory == {k \in DOMAIN template : PoolAnchor[1].category \in Range(template[k].cats)}
    IN IF direct # {} THEN cands[Least(direct)]
       ELSE IF byCategory # {} THEN template[Least(byCategory)].role
       ELSE Null

\* the anchor, when the pool holds one, takes a role of the template, and
\* every other role has a product in the tier pool
Usable(n, template) ==
    IF PoolAnchor = <<>>
    THEN \A k \in DOMAIN template : PoolFills(n, template[k])
    ELSE /\ AnchorTakes(template) # Null
         /\ \A k \in DOMAIN template :
                template[k].role = AnchorTakes(template) \/ PoolFills(n, template[k])

\* C22, amended: for each tier the returned bundle is built from the first
\* template, in list order, in which the anchor (when the pool holds one)
\* takes a role and every other role has a product in the tier pool; a
\* template none of whose roles the anchor can take is passed over even when
\* the tier pool fills all its roles; the fallback classifier is used only
\* when no template is usable or none exists
C22_FirstUsableTemplate ==
    Built =>
        \A n \in DOMAIN Tiers :
            LET usable == {k \in DOMAIN RequestTemplates : Usable(n, RequestTemplates[k])}
            IN IF usable # {}
               THEN /\ FollowsTemplate(BuiltItems[n], RequestTemplates[Least(usable)])
                    /\ PoolAnchor # <<>> =>
                           \E i \in DOMAIN BuiltItems[n] :
                               /\ BuiltItems[n][i].id = cartReq.anchorProductId
                               /\ BuiltItems[n][i].role
                                      = AnchorTakes(RequestTemplates[Least(usable)])
               ELSE BuiltItems[n] = FallbackOf(n)

\* the Budget bundle follows the second template because the first is not
\* usable, and the Premium bundle comes from the fallback classifier because
\* the anchor takes no role of the first template, which the pool could fill
C22_Witness ==
    /\ Built
    /\ Len(RequestTemplates) = 2
    /\ PoolAnchor # <<>>
    /\ ~Usable(1, RequestTemplates[1]) /\ Usable(1, RequestTemplates[2])
    /\ FollowsTemplate(BuiltItems[1], RequestTemplates[2])

\* a build with an anchor whose tiers all fall back although the tier pools
\* fill every role of the first template
C22_PassedOverWitness ==
    /\ Built
    /\ PoolAnchor # <<>>
    /\ RequestTemplates # <<>>
    /\ \A n \in DOMAIN Tiers :
           /\ Fillable(n, RequestTemplates[1])
           /\ \A k \in DOMAIN RequestTemplates : ~Usable(n, RequestTemplates[k])
           /\ BuiltItems[n] = FallbackOf(n)

\* a build without anchor whose bundles follow the first template
C22_FirstWitness ==
    /\ Built
    /\ PoolAnchor = <<>>
    /\ RequestTemplates # <<>>
    /\ \A n \in DOMAIN Tiers : FollowsTemplate(BuiltItems[n], RequestTemplates[1])

\* the footwear categories of the classifier, as the catalog spells them
FootwearCategories == {"Heels", "Flats", "Loafers", "Sneakers", "Derbies"}

\* the anchor named by the request is a footwear product of the catalog
FootwearAnchor ==
    /\ Truthy(cartReq.anchorProductId)
    /\ FindById(catalog, cartReq.anchorProductId) # <<>>
    /\ FindById(catalog, cartReq.anchorProductId)[1].category \in FootwearCategories

\* the roles the anchor has in bundle n
AnchorRoles(n) ==
    {BuiltItems[n][i].role :
        i \in {j \in DOMAIN BuiltItems[n] : BuiltItems[n][j].id = cartReq.anchorProductId}}

\* every template of every scenario and audience
AllTemplates ==
    UNION {Range(ROLE_TEMPLATES[sc][a]) :
              sc \in DOMAIN ROLE_TEMPLATES, a \in Audiences}

\* C23: a footwear anchor (Sneakers or another footwear category of the
\* classifier) has the role footwear in all three returned bundles, built
\* from a template or by the fallback classifier, and every template of
\* every scenario and audience gives such an anchor the role footwear
C23_FootwearAnchorRole ==
    /\ \A template \in AllTemplates, c \in FootwearCategories :
           TemplateAnchorRole([category |-> c], template) = "footwear"
    /\ (Built /\ FootwearAnchor) =>
           \A n \in DOMAIN Tiers :
               /\ AnchorRoles(n) \subseteq {"footwear"}
               /\ PoolAnchor # <<>> => AnchorRoles(n) = {"footwear"}

\* a Sneakers anchor is the footwear of three bundles that follow a template
C23_Witness ==
    /\ Built /\ FootwearAnchor /\ PoolAnchor # <<>>
    /\ RequestTemplates # <<>>
    /\ \A n \in DOMAIN Tiers :
           /\ AnchorRoles(n) = {"footwear"}
           /\ \E k \in DOMAIN RequestTemplates : FollowsTemplate(BuiltItems[n], RequestTemplates[k])

\* a Sneakers anchor is the footwear of three bundles of the fallback
\* classifier, for a request without templates
C23_FallbackWitness ==
    /\ Built /\ FootwearAnchor /\ PoolAnchor # <<>>
    /\ RequestTemplates = <<>>
    /\ \A n \in DOMAIN Tiers : AnchorRoles(n) = {"footwear"} /\ BuiltItems[n] = FallbackOf(n)

\* a Sneakers anchor is the footwear of three bundles built after every
\* template of the request failed
C23_FailedTemplatesWitness ==
    /\ Built /\ FootwearAnchor /\ PoolAnchor # <<>>
    /\ RequestTemplates # <<>>
    /\ \A n \in DOMAIN Tiers :
           /\ AnchorRoles(n) = {"footwear"}
           /\ \A k \in DOMAIN RequestTemplates : ~Usable(n, RequestTemplates[k])

\* buildCarts tiered a pool of at least 3 products whose price range is
\* below 10, for a request without anchor
RankTiered ==
    /\ cartReq # NoCall /\ cartResp # NoResult
    /\ ~Truthy(cartReq.anchorProductId)
    /\ Len(cartResp.pool) >= 3
    /\ LET prices == SortedPrices(cartResp.pool)
       IN prices[Len(prices)] - prices[1] < 10

\* C24: degenerate tiering leaves no tier empty: for a pool of at least 3
\* products with a price range below 10 and no anchor, each of the three tier
\* pools holds at least one product, and
\* budgetMax <= balancedMin <= balancedMax <= premiumMin
C24_NoEmptyTier ==
    RankTiered =>
        /\ \A n \in DOMAIN Tiers : PoolOfTier(n) # <<>>
        /\ PriceTiers(cartResp.pool).budgetMax <= PriceTiers(cartResp.pool).balancedMin
        /\ PriceTiers(cartResp.pool).balancedMin <= PriceTiers(cartResp.pool).balancedMax
        /\ PriceTiers(cartResp.pool).balancedMax <= PriceTiers(cartResp.pool).premiumMin

\* a rank-tiered build over three different prices whose tier pools differ
C24_Witness ==
    /\ RankTiered /\ Built
    /\ Cardinality({cartResp.pool[i].price : i \in DOMAIN cartResp.pool}) >= 3
    /\ PoolOfTier(1) # PoolOfTier(2) /\ PoolOfTier(2) # PoolOfTier(3)

\* a rank-tiered build over a pool with equal prices at the boundaries
C24_TiesWitness ==
    /\ RankTiered /\ Built
    /\ Len(cartResp.pool) >= 4
    /\ Cardinality({cartResp.pool[i].price : i \in DOMAIN cartResp.pool}) = 2

\* the number of items of bundle n that are the product id
Occurrences(n, id) == Cardinality({i \in DOMAIN BuiltItems[n] : BuiltItems[n][i].id = id})

\* C30: no product appears twice in one bundle: in every returned bundle,
\* built from a template or by the fallback classifier (role loop and
\* padding), the item ids are pairwise distinct, and the anchor, when the
\* build holds one, appears exactly once
C30_DistinctItems ==
    Built =>
        \A n \in DOMAIN Tiers :
            /\ \A i, j \in DOMAIN BuiltItems[n] :
                   BuiltItems[n][i].id = BuiltItems[n][j].id => i = j
            /\ PoolAnchor # <<>> => Occurrences(n, cartReq.anchorProductId) = 1

\* a build with an anchor whose Budget bundle the padding loop of the
\* fallback classifier completed to three items
C30_Witness ==
    /\ Built /\ PoolAnchor # <<>>
    /\ BuiltItems[1] = FallbackOf(1)
    /\ Len(BuiltItems[1]) = 3
    /\ Cardinality(BundleRoles(BuiltItems[1])) < 3

\* a build with an anchor whose bundles follow a template of four roles
C30_TemplateWitness ==
    /\ Built /\ PoolAnchor # <<>>
    /\ RequestTemplates # <<>>
    /\ \A n \in DOMAIN Tiers :
           Len(BuiltItems[n]) = 4 /\ FollowsTemplate(BuiltItems[n], RequestTemplates[1])

-----------------------------------------------------------------------------
(* Properties of POST /api/search with sessions *)

\* the handler has answered the request with a result list
Answered == searchReq # NoCall /\ searchResp # NoResult /\ searchResp.status = 200

\* the answer of the original search flow, and of the follow-up branch
OriginalAnswered == Answered /\ ~IsFollowUp(searchReq)
FollowUpAnswered == Answered /\ IsFollowUp(searchReq)

\* the product of the catalog a result stands for
CatalogProduct(id) == CHOOSE p \in Range(catalog) : p.id = id

\* C26: whenever the original search flow resolves an audience, every product
\* of the returned results has that audience, also when the search is run
\* again after the shopping brief (userAnswer present or session asked)
C26_AudienceGating ==
    (OriginalAnswered /\ searchResp.audience # Null) =>
        \A n \in DOMAIN searchResp.results :
            CatalogProduct(searchResp.results[n].id).audience = searchResp.audience

\* the fields of the constraints a follow-up may leave alone
MergedFields ==
    {"budgetMax", "category", "occasion", "style", "includeKeywords", "excludeKeywords"}

\* the value of an unset field
Unset(f) ==
    IF f = "budgetMax" THEN NoNumber
    ELSE IF f \in {"includeKeywords", "excludeKeywords"} THEN <<>>
    ELSE Null

\* the delta gives no value for the field: absent or null
NoValue(delta, f) == f \notin DOMAIN delta \/ delta[f] = Unset(f)

\* C27: a field of the existing constraints for which the follow-up delta
\* gives no value (absent or null) keeps its value in the merged constraints,
\* and an existing budget or category kept that way still bounds the results
C27_MergePreserves ==
    FollowUpAnswered =>
        \A f \in MergedFields \cap DOMAIN ExistingConstraints(searchReq) :
            NoValue(searchResp.delta, f) =>
                /\ searchResp.merged[f] = ExistingConstraints(searchReq)[f]
                /\ (f = "budgetMax" /\ ExistingConstraints(searchReq)[f] # NoNumber) =>
                       \A n \in DOMAIN searchResp.results :
                           searchResp.results[n].price <= ExistingConstraints(searchReq)[f]
                /\ (f = "category" /\ Truthy(ExistingConstraints(searchReq)[f])) =>
                       \A n \in DOMAIN searchResp.results :
                           searchResp.results[n].category = ExistingConstraints(searchReq)[f]

\* C28: for a non-empty includeKeywords list the follow-up filter accepts a
\* product exactly when the includeKeywords check of preFilter accepts it
\* (its category is one of the keywords, ignoring case)
C28_IncludeKeywordsSame ==
    (FollowUpAnswered /\ Len(Field(searchResp.merged, "includeKeywords", <<>>)) > 0) =>
        \A p \in Range(catalog) :
            FollowUpIncludeOk(p, searchResp.merged)
                <=> IncludeKeywordsOk(p, searchResp.merged, Null)

\* the request leaves the audience to the answer: none in the body, none in
\* the session
AudienceFromAnswer ==
    /\ OriginalAnswered
    /\ searchReq.audience \notin Audiences
    /\ ~(searchReq.session # NoSession /\ Truthy(searchReq.session.audience))
    /\ Truthy(searchReq.userAnswer)

\* the lower-cased answer holds the word
Naming(word) == Includes(toLowerCase(searchReq.userAnswer), word)

\* C29: an audience taken from userAnswer is women for an answer naming
\* "women", men for one naming "men" and not women, unisex for one naming
\* "unisex"; the response then asks no question and its session is marked
\* asked with that audience
C29_AnswerAudience ==
    AudienceFromAnswer =>
        /\ Naming("women") => searchResp.audience = "women"
        /\ (Naming("men") /\ ~Naming("women") /\ ~Naming("unisex")) =>
               searchResp.audience = "men"
        /\ (Naming("unisex") /\ ~Naming("men")) => searchResp.audience = "unisex"
        /\ searchResp.audience # Null =>
               /\ searchResp.assistantQuestion = Null
               /\ searchResp.session.asked
               /\ searchResp.session.audience = searchResp.audience

====
